---- MODULE Spec2Model ----
(***************************************************************************)
(* A model of the SMS broadcast and two-way messaging service:             *)
(*   - the inbound SMS webhook and the ProcessInboundMessage use case,     *)
(*   - keyword administration,                                             *)
(*   - the broadcast fan-out,                                              *)
(*   - the delivery-status webhook,                                        *)
(*   - the inbox list / stats projections and the admin conversation ops.  *)
(* Text is modelled as sequences of one-character strings so that trim()   *)
(* and toUpperCase() are computed rather than assumed.                     *)
(***************************************************************************)
EXTENDS Integers, Sequences, FiniteSets, TLC

VARIABLES
    subscribers,   \* Subscriber table: set of rows (phoneNumber is unique)
    memberships,   \* SubscriberListMembership table: set of rows
    keywords,      \* SignupKeyword table: set of rows (keyword is unique)
    messages,      \* Message table: sequence of rows in insertion order
    clock,         \* wall clock used for createdAt / lastReadAt
    handler,       \* per in-flight SMS webhook request: position and locals
    delivered,     \* number of webhook requests (SMS, delivery status) received so far
    limit,         \* number of webhook requests the run is cut off at
    faults,        \* number of failures of the store, the gateway and the notifier so far
    log,           \* completed SMS webhook requests, in completion order
    start,         \* Subscriber table as it was before the first request
    bc,            \* the broadcast request in flight: position and locals
    sends,         \* what the gateway saw of the broadcast: recipient and outcome, in order
    inbox,         \* last answer of an admin endpoint (inbox list, inbox stats, reply, mark-unread)
    callback,      \* last delivery-status callback and its answer
    links,         \* Link table: set of rows (shortCode is unique)
    clicks,        \* LinkClick table: sequence of rows in insertion order
    redirect,      \* last request to the click redirector and its answer
    lists,         \* SubscriberList table: the ids of the stored lists
    ld,            \* the request that deletes a list: its position and answer
    enrol,         \* the admin request that adds members to a list or imports
                   \* subscribers: its position, counters and answer
    kreq           \* the keyword create or update in flight between its checks
                   \* and its write: the row to write and the answer

vars == <<subscribers, memberships, keywords, messages, clock, handler,
          delivered, limit, faults, log, start, bc, sends, inbox, callback,
          links, clicks, redirect, lists, ld, enrol, kreq>>

----------------------------------------------------------------------------
\* Bounds of the model

MaxWebhooks == 2     \* webhook requests in a run in which calls can fail
MaxSequence == 3     \* webhook requests in a run in which no call fails
MaxFaults == 1       \* failed calls (store, gateway, notifier) in a run
MaxCallbacks == 2    \* delivery-status callbacks in a run
MaxReplies == 1      \* admin replies stored in a run
MaxClicks == 1       \* clicks recorded in a run
MaxInbound == 1      \* webhook requests after a seeded conversation

----------------------------------------------------------------------------
\* Text

LowerToUpper ==
    [c \in {"b","e","h","i","j","n","o","p","r","s","t"} |->
        CASE c = "b" -> "B" [] c = "e" -> "E" [] c = "h" -> "H" [] c = "i" -> "I"
          [] c = "j" -> "J" [] c = "n" -> "N" [] c = "o" -> "O" [] c = "p" -> "P"
          [] c = "r" -> "R" [] c = "s" -> "S" [] c = "t" -> "T"]

ToUpperCase(s) ==
    [i \in 1..Len(s) |-> IF s[i] \in DOMAIN LowerToUpper THEN LowerToUpper[s[i]] ELSE s[i]]

RECURSIVE TrimStart(_)
TrimStart(s) == IF s # <<>> /\ Head(s) = " " THEN TrimStart(Tail(s)) ELSE s

RECURSIVE TrimEnd(_)
TrimEnd(s) ==
    IF s # <<>> /\ s[Len(s)] = " " THEN TrimEnd(SubSeq(s, 1, Len(s) - 1)) ELSE s

Trim(s) == TrimEnd(TrimStart(s))

Digits == {"0","1","2","3","4","5","6","7","8","9"}

IsValidPhoneNumber(p) ==
    /\ Len(p) = 12
    /\ p[1] = "+"
    /\ p[2] = "1"
    /\ \A i \in 3..12 : p[i] \in Digits

\* Inbound bodies and phone numbers used as inputs
STOP  == <<"S","T","O","P">>
UNSUBSCRIBE == <<"U","N","S","U","B","S","C","R","I","B","E">>
TRIBE == <<"T","R","I","B","E">>
JOIN  == <<"J","O","I","N">>

BodyStop  == <<"s","t","o","p">>
BodyTribe == <<" ","T","r","i","b","e">>
BodyJoin  == <<"j","o","i","n"," ">>
BodyHi    == <<"h","i">>
Empty     == <<>>

Bodies == {BodyStop, BodyTribe, BodyJoin, BodyHi, Empty}

Phone1   == <<"+","1","5","5","5","1","2","3","4","5","6","7">>
PhoneUk  == <<"+","4","4","1","2","3","4","5","6","7","8","9","0">>

\* the service's own number, the To of a webhook request
ServiceNumber == <<"+","1","5","5","5","0","0","0","0","0","0","0">>

\* The webhook requests tried: every body from a valid US number, one request
\* from a foreign number, and one each without Body, without From and without To
Requests ==
    {[from |-> Phone1, to |-> ServiceNumber, body |-> b] : b \in Bodies}
      \cup {[from |-> PhoneUk, to |-> ServiceNumber, body |-> BodyTribe],
             [from |-> Empty, to |-> ServiceNumber, body |-> BodyHi],
             [from |-> Phone1, to |-> Empty, body |-> BodyHi]}

Lists == {"L1", "L2"}

OPT_OUT_KEYWORDS == {STOP, UNSUBSCRIBE}

----------------------------------------------------------------------------
\* Repositories.  An optional value is a set: {} when absent, {v} when present.

Some(S) == CHOOSE x \in S : TRUE

\* the elements of an array
Range(seq) == {seq[i] : i \in 1..Len(seq)}

\* Subscriber.fromPersistence: the entity carries no lastReadAt
FromPersistence(row) ==
    [id |-> row.id, phoneNumber |-> row.phoneNumber, isActive |-> row.isActive,
     joinedAt |-> row.joinedAt, slackThreadTs |-> row.slackThreadTs,
     joinedViaKeyword |-> row.joinedViaKeyword]

\* PrismaSubscriberRepository.findByPhoneNumber
FindByPhoneNumber(tbl, phone) ==
    {FromPersistence(r) : r \in {x \in tbl : x.phoneNumber = phone}}

\* Subscriber.create(phoneNumber, keyword)
SubscriberCreate(id, phone, kw, now) ==
    [id |-> id, phoneNumber |-> phone, isActive |-> TRUE, joinedAt |-> now,
     slackThreadTs |-> {}, joinedViaKeyword |-> {kw}]

\* PrismaSubscriberRepository.add: the unique index on phoneNumber rejects a second row
CanAdd(tbl, s) == \A r \in tbl : r.phoneNumber # s.phoneNumber /\ r.id # s.id

RepoAdd(tbl, s) ==
    tbl \cup {[id |-> s.id, phoneNumber |-> s.phoneNumber, isActive |-> s.isActive,
               joinedAt |-> s.joinedAt, slackThreadTs |-> s.slackThreadTs,
               joinedViaKeyword |-> s.joinedViaKeyword, lastReadAt |-> {}]}

\* PrismaSubscriberRepository.update: writes isActive, slackThreadTs and
\* joinedViaKeyword of the entity over the row with its phoneNumber; a field
\* that is undefined on the entity is left as stored.
RepoUpdate(tbl, s) ==
    {IF r.phoneNumber = s.phoneNumber
       THEN [r EXCEPT !.isActive = s.isActive,
                      !.slackThreadTs = IF s.slackThreadTs # {} THEN s.slackThreadTs ELSE @,
                      !.joinedViaKeyword =
                          IF s.joinedViaKeyword # {} THEN s.joinedViaKeyword ELSE @]
       ELSE r : r \in tbl}

\* an update of lastReadAt that never reaches the row
SetLastReadAtLost(tbl, id, value) == tbl

\* prisma.subscriber.update({where: {id}, data: {lastReadAt}})
SetLastReadAt(tbl, id, value) ==
    {IF r.id = id THEN [r EXCEPT !.lastReadAt = value] ELSE r : r \in tbl}

\* PrismaSignupKeywordRepository.findByKeyword
FindByKeyword(tbl, text) == {k \in tbl : k.keyword = ToUpperCase(text)}

\* addMember written as a plain insert into a table without the composite key
AddMemberInsert(tbl, listId, subscriberId, joinedVia, now) ==
    tbl \cup {[subscriberId |-> subscriberId, listId |-> listId,
               joinedVia |-> joinedVia, joinedAt |-> now]}

\* PrismaSubscriberListRepository.addMember: upsert on (subscriberId, listId)
AddMember(tbl, listId, subscriberId, joinedVia, now) ==
    IF \E m \in tbl : m.subscriberId = subscriberId /\ m.listId = listId
      THEN tbl
      ELSE tbl \cup {[subscriberId |-> subscriberId, listId |-> listId,
                      joinedVia |-> joinedVia, joinedAt |-> now]}

\* the create branch of the upsert
MembershipRow(listId, subscriberId, joinedVia, now) ==
    [subscriberId |-> subscriberId, listId |-> listId, joinedVia |-> joinedVia,
     joinedAt |-> now]

\* prisma.message.create for a row of the webhook or of an admin reply
NewMessage(phone, content, direction, now) ==
    [phoneNumber |-> phone, content |-> content, direction |-> direction,
     createdAt |-> now, broadcastId |-> {}, twilioSid |-> {},
     deliveryStatus |-> "PENDING"]

\* A row's createdAt is later than every timestamp taken before it; new Date()
\* falls in the tick of the last timestamp taken or in a later one.
NextTick == clock + 1
Ticks == {clock, clock + 1}

----------------------------------------------------------------------------
\* ProcessInboundMessage

\* activate() that forgets to set the flag
ActivateNoop(s) == s

\* Subscriber.activate / Subscriber.deactivate
Activate(s) == [s EXCEPT !.isActive = TRUE]
Deactivate(s) == [s EXCEPT !.isActive = FALSE]

\* execute: which branch the normalized body takes, given the keyword lookup's answer
Intent(normalizedMessage, matchedKeyword) ==
    IF matchedKeyword # {} /\ Some(matchedKeyword).isActive THEN "optin"
    ELSE IF normalizedMessage \in OPT_OUT_KEYWORDS THEN "optout"
    ELSE "regular"

NoResult ==
    [shouldRespond |-> FALSE, response |-> <<>>, notifySlack |-> FALSE, isOptIn |-> FALSE]

\* handleOptIn's three answers
AlreadySubscribed ==
    [shouldRespond |-> TRUE, response |-> <<"You're already subscribed!">>,
     notifySlack |-> FALSE, isOptIn |-> TRUE]
Reactivated(kw) ==
    [shouldRespond |-> TRUE, response |-> <<kw.autoResponse>>,
     notifySlack |-> TRUE, isOptIn |-> TRUE]
NewSubscriber(kw) ==
    [shouldRespond |-> TRUE, response |-> <<kw.autoResponse>>,
     notifySlack |-> TRUE, isOptIn |-> TRUE]

\* handleOptOut's two answers
Unsubscribed ==
    [shouldRespond |-> TRUE, response |-> <<"You've been unsubscribed.">>,
     notifySlack |-> TRUE, isOptIn |-> FALSE]
NotSubscribed ==
    [shouldRespond |-> TRUE, response |-> <<"You're not currently subscribed.">>,
     notifySlack |-> FALSE, isOptIn |-> FALSE]

\* handleRegularMessage
HandleRegularMessage(existingSubscriber) ==
    IF existingSubscriber # {} /\ Some(existingSubscriber).isActive
      THEN [shouldRespond |-> FALSE, response |-> <<>>, notifySlack |-> TRUE,
            isOptIn |-> FALSE]
      ELSE [shouldRespond |-> TRUE, response |-> <<"Text a keyword to subscribe to updates.">>,
            notifySlack |-> FALSE, isOptIn |-> FALSE]

----------------------------------------------------------------------------
\* POST /api/webhooks/sms

Handlers == {1, 2}

\* what the webhook never touches
others == <<limit, start, bc, sends, inbox, callback, links, clicks, redirect, lists, ld,
            enrol, kreq>>

Idle ==
    [pc |-> "idle", from |-> Empty, to |-> Empty, body |-> Empty, seq |-> 0,
     existing |-> {}, kw |-> {}, intent |-> "none", subId |-> {},
     result |-> NoResult, postedIn |-> {}, threadTs |-> {}, sub2 |-> {},
     inboundAt |-> {}, replyAt |-> {}, marked |-> FALSE,
     failed |-> FALSE, clean |-> TRUE,
     status |-> 0, ctype |-> "none", xml |-> <<>>]

\* The answers of the handler
MissingFields == [status |-> 400, ctype |-> "json", xml |-> <<>>]
\* an outer catch that reports the error to the provider
CatchResponse500 == [status |-> 500, ctype |-> "json", xml |-> <<>>]
CatchResponse == [status |-> 200, ctype |-> "xml", xml |-> <<>>]
TwimlResponse(result) ==
    [status |-> 200, ctype |-> "xml",
     xml |-> IF result.shouldRespond /\ result.response # <<>> THEN result.response
             ELSE <<>>]

\* What a completed request leaves in the history: the request, how it went, and
\* the subscriber of its From number with that subscriber's memberships
LogEntry(hr, subs, mems) ==
    LET rows == {r \in subs : r.phoneNumber = hr.from} IN
    [seq |-> hr.seq, from |-> hr.from, body |-> hr.body, kw |-> hr.kw,
     intent |-> hr.intent, failed |-> hr.failed, clean |-> hr.clean,
     sub |-> rows,
     members |-> {m \in mems : \E r \in rows : m.subscriberId = r.id}]

\* the history keeps the last three completed requests
Logged(entry) == IF Len(log) < 3 THEN Append(log, entry) ELSE Append(Tail(log), entry)

\* the request is answered: its locals are gone, the answer stays
Answer(hr, resp) ==
    [Idle EXCEPT !.pc = "done", !.from = hr.from, !.to = hr.to, !.body = hr.body,
                 !.seq = hr.seq,
                 !.failed = hr.failed, !.clean = hr.clean,
                 !.status = resp.status, !.ctype = resp.ctype, !.xml = resp.xml]

\* the outer catch: an empty TwiML answer
Fail(h) ==
    LET hr == [handler[h] EXCEPT !.failed = TRUE, !.clean = FALSE] IN
    /\ handler' = [handler EXCEPT ![h] = Answer(hr, CatchResponse)]
    /\ log' = Logged(LogEntry(hr, subscribers, memberships))

\* a call that can fail: the number of failures in one run is bounded
Outcome(ok) ==
    /\ ~ok => faults < MaxFaults
    /\ faults' = IF ok THEN faults ELSE faults + 1

\* where the handler goes once the inbound row is stored, and after the reply
AfterReply(result) ==
    IF result.notifySlack THEN "notify" ELSE "respond"
AfterInbound(result) ==
    IF result.shouldRespond /\ result.response # <<>> THEN "reply" ELSE AfterReply(result)

\* request.formData() and the required-field check
Receive(h, req) ==
    /\ handler[h].pc \in {"idle", "done"}
    /\ delivered < limit
    /\ delivered' = delivered + 1
    /\ LET hr == [Idle EXCEPT !.from = req.from, !.to = req.to, !.body = req.body,
                              !.seq = delivered + 1]
       IN handler' = [handler EXCEPT ![h] =
             IF req.from = Empty \/ req.to = Empty \/ req.body = Empty
               THEN Answer(hr, MissingFields)
               ELSE [hr EXCEPT !.pc = "lookup"]]
    /\ UNCHANGED <<subscribers, memberships, keywords, messages, clock, faults, log, others>>

\* a request whose form data cannot be parsed ends in the outer catch
ReceiveMalformed(h) ==
    /\ handler[h].pc \in {"idle", "done"}
    /\ delivered < limit
    /\ delivered' = delivered + 1
    /\ handler' = [handler EXCEPT ![h] =
           Answer([Idle EXCEPT !.seq = delivered + 1, !.failed = TRUE, !.clean = FALSE],
                  CatchResponse)]
    /\ UNCHANGED <<subscribers, memberships, keywords, messages, clock, faults, log, others>>

\* execute, up to the choice of the branch: phone validation, findByPhoneNumber,
\* findByKeyword
ExecLookup(h) ==
    /\ handler[h].pc = "lookup"
    /\ LET hr == handler[h]
           normalizedMessage == ToUpperCase(Trim(hr.body))
       IN IF ~IsValidPhoneNumber(hr.from)
            THEN Fail(h) /\ UNCHANGED faults
            ELSE \E dbOk \in BOOLEAN :
                 /\ Outcome(dbOk)
                 /\ IF ~dbOk
                      THEN Fail(h)
                      ELSE LET existing == FindByPhoneNumber(subscribers, hr.from)
                               matched  == FindByKeyword(keywords, normalizedMessage)
                               intent   == Intent(normalizedMessage, matched)
                               hr1 == [hr EXCEPT !.existing = existing, !.intent = intent,
                                          !.kw = IF intent = "optin" THEN matched ELSE {}]
                           IN /\ handler' = [handler EXCEPT ![h] =
                                    IF intent = "regular"
                                      THEN [hr1 EXCEPT
                                              !.result = HandleRegularMessage(existing),
                                              !.pc = "inbound"]
                                      ELSE [hr1 EXCEPT !.pc = intent]]
                              /\ UNCHANGED log
    /\ UNCHANGED <<subscribers, memberships, keywords, messages, clock, delivered, others>>

\* handleOptIn, up to the subscriber write
ExecOptIn(h) ==
    /\ handler[h].pc = "optin"
    /\ LET hr == handler[h]
           kw == Some(hr.kw)
           next == IF kw.listId # {} THEN "enroll" ELSE "inbound"
       IN IF hr.existing # {}
            THEN LET ex == Some(hr.existing) IN
                 IF ex.isActive
                   THEN /\ handler' = [handler EXCEPT ![h] =
                              [hr EXCEPT !.pc = next, !.subId = {ex.id},
                                         !.result = AlreadySubscribed]]
                        /\ UNCHANGED <<subscribers, log, clock>>
                   ELSE /\ subscribers' = RepoUpdate(subscribers,
                              [Activate(ex) EXCEPT !.joinedViaKeyword = {kw.keyword}])
                        /\ handler' = [handler EXCEPT ![h] =
                              [hr EXCEPT !.pc = next, !.subId = {ex.id},
                                         !.result = Reactivated(kw)]]
                        /\ UNCHANGED <<log, clock>>
            ELSE LET new == SubscriberCreate(Cardinality(subscribers) + 1, hr.from,
                                             kw.keyword, NextTick) IN
                 IF CanAdd(subscribers, new)
                   THEN /\ subscribers' = RepoAdd(subscribers, new)
                        /\ clock' = NextTick
                        /\ handler' = [handler EXCEPT ![h] =
                              [hr EXCEPT !.pc = next, !.subId = {new.id},
                                         !.result = NewSubscriber(kw)]]
                        /\ UNCHANGED log
                   ELSE Fail(h) /\ UNCHANGED <<subscribers, clock>>
    /\ UNCHANGED <<memberships, keywords, messages, delivered, faults, others>>

\* handleOptIn: listRepository.addMember for a list-bound keyword
ExecEnroll(h) ==
    /\ handler[h].pc = "enroll"
    /\ LET hr == handler[h]
           kw == Some(hr.kw)
       IN \E dbOk \in BOOLEAN :
          /\ Outcome(dbOk)
          /\ IF dbOk
               THEN /\ memberships' = AddMember(memberships, Some(kw.listId),
                                                Some(hr.subId), <<"keyword", kw.keyword>>,
                                                clock)
                    /\ handler' = [handler EXCEPT ![h] = [hr EXCEPT !.pc = "inbound"]]
                    /\ UNCHANGED log
               ELSE Fail(h) /\ UNCHANGED memberships
    /\ UNCHANGED <<subscribers, keywords, messages, clock, delivered, others>>

\* handleOptOut
ExecOptOut(h) ==
    /\ handler[h].pc = "optout"
    /\ LET hr == handler[h] IN
       IF hr.existing # {} /\ Some(hr.existing).isActive
         THEN /\ subscribers' = RepoUpdate(subscribers, Deactivate(Some(hr.existing)))
              /\ handler' = [handler EXCEPT ![h] =
                    [hr EXCEPT !.pc = "inbound", !.result = Unsubscribed]]
         ELSE /\ handler' = [handler EXCEPT ![h] =
                    [hr EXCEPT !.pc = "inbound", !.result = NotSubscribed]]
              /\ UNCHANGED subscribers
    /\ UNCHANGED <<memberships, keywords, messages, clock, delivered, faults, log, others>>

\* an INBOUND row that carries the normalized body
InboundRowNormalized(hr, now) == NewMessage(hr.from, ToUpperCase(Trim(hr.body)), "INBOUND", now)

\* the INBOUND row: phoneNumber is From, content is Body as received
InboundRow(hr, now) == NewMessage(hr.from, hr.body, "INBOUND", now)

\* prisma.message.create of the INBOUND row; a failure is logged and swallowed
StoreInbound(h) ==
    /\ handler[h].pc = "inbound"
    /\ LET hr == handler[h] IN
       \E stored \in BOOLEAN :
          /\ Outcome(stored)
          /\ messages' = IF stored THEN Append(messages, InboundRow(hr, NextTick))
                                   ELSE messages
          /\ clock' = IF stored THEN NextTick ELSE clock
          /\ handler' = [handler EXCEPT ![h] =
                [hr EXCEPT !.pc = AfterInbound(hr.result),
                           !.inboundAt = IF stored THEN {NextTick} ELSE {},
                           !.clean = hr.clean /\ stored]]
    /\ UNCHANGED <<subscribers, memberships, keywords, delivered, log, others>>

\* twilioService.sendMessage of the auto-reply, then the OUTBOUND row; a failed
\* send skips the row and the mark-read; both failures are logged and swallowed
SendReply(h) ==
    /\ handler[h].pc = "reply"
    /\ LET hr == handler[h] IN
       \E sent \in BOOLEAN, stored \in BOOLEAN :
          /\ ~sent => ~stored
          /\ Outcome(sent /\ stored)
          /\ messages' = IF stored
                           THEN Append(messages,
                                       NewMessage(hr.from, hr.result.response, "OUTBOUND",
                                                  NextTick))
                           ELSE messages
          /\ clock' = IF stored THEN NextTick ELSE clock
          /\ handler' = [handler EXCEPT ![h] =
                [hr EXCEPT !.pc = IF sent /\ hr.result.isOptIn THEN "markread"
                                  ELSE AfterReply(hr.result),
                           !.replyAt = IF stored THEN {NextTick} ELSE {},
                           !.clean = hr.clean /\ sent /\ stored]]
    /\ UNCHANGED <<subscribers, memberships, keywords, delivered, log, others>>

\* after an opt-in reply: findByPhoneNumber, then lastReadAt := new Date();
\* a failure is logged and swallowed
MarkRead(h) ==
    /\ handler[h].pc = "markread"
    /\ LET hr == handler[h]
           subscriber == FindByPhoneNumber(subscribers, hr.from)
       IN \E dbOk \in BOOLEAN :
          /\ Outcome(dbOk)
          /\ IF dbOk /\ subscriber # {}
               THEN \E now \in Ticks :
                      /\ subscribers' = SetLastReadAt(subscribers, Some(subscriber).id, {now})
                      /\ clock' = now
               ELSE UNCHANGED <<subscribers, clock>>
          /\ handler' = [handler EXCEPT ![h] =
                [hr EXCEPT !.pc = AfterReply(hr.result),
                           !.marked = dbOk /\ subscriber # {},
                           !.clean = hr.clean /\ dbOk]]
    /\ UNCHANGED <<memberships, keywords, messages, delivered, log, others>>

\* the threadTs argument of slackService.postMessage(result.slackMessage): the
\* route hands over the message alone, whatever the subscriber has stored
ThreadArgument(existingSubscriber) == {}

\* slackService.postMessage: the thread timestamp it returns is new with every post
Notify(h) ==
    /\ handler[h].pc = "notify"
    /\ LET hr == handler[h] IN
       \E posted \in BOOLEAN :
          /\ Outcome(posted)
          /\ handler' = [handler EXCEPT ![h] =
                IF posted THEN [hr EXCEPT !.pc = "threadfind", !.threadTs = {hr.seq},
                                          !.postedIn = ThreadArgument(hr.existing)]
                          ELSE [hr EXCEPT !.pc = "respond", !.clean = FALSE]]
    /\ UNCHANGED <<subscribers, memberships, keywords, messages, clock, delivered, log,
                   others>>

\* the thread write-back, first half: findByPhoneNumber
ThreadFind(h) ==
    /\ handler[h].pc = "threadfind"
    /\ LET hr == handler[h]
           subscriber == FindByPhoneNumber(subscribers, hr.from)
       IN handler' = [handler EXCEPT ![h] =
             IF subscriber # {} /\ Some(subscriber).slackThreadTs = {}
               THEN [hr EXCEPT !.pc = "threadwrite", !.sub2 = subscriber]
               ELSE [hr EXCEPT !.pc = "respond"]]
    /\ UNCHANGED <<subscribers, memberships, keywords, messages, clock, delivered, faults,
                   log, others>>

\* the thread write-back, second half: subscriberRepo.update of the entity just read
ThreadWrite(h) ==
    /\ handler[h].pc = "threadwrite"
    /\ LET hr == handler[h] IN
       /\ subscribers' = RepoUpdate(subscribers,
                                    [Some(hr.sub2) EXCEPT !.slackThreadTs = hr.threadTs])
       /\ handler' = [handler EXCEPT ![h] = [hr EXCEPT !.pc = "respond"]]
    /\ UNCHANGED <<memberships, keywords, messages, clock, delivered, faults, log, others>>

\* the admin SMS notification (it writes nothing), $disconnect and the TwiML answer
Respond(h) ==
    /\ handler[h].pc = "respond"
    /\ handler' = [handler EXCEPT ![h] = Answer(handler[h], TwimlResponse(handler[h].result))]
    /\ log' = Logged(LogEntry(handler[h], subscribers, memberships))
    /\ UNCHANGED <<subscribers, memberships, keywords, messages, clock, delivered, faults,
                   others>>

\* the steps of a request that has been received
Process(h) ==
    \/ ExecLookup(h)
    \/ ExecOptIn(h)
    \/ ExecEnroll(h)
    \/ ExecOptOut(h)
    \/ StoreInbound(h)
    \/ SendReply(h)
    \/ MarkRead(h)
    \/ Notify(h)
    \/ ThreadFind(h)
    \/ ThreadWrite(h)
    \/ Respond(h)

WebhookStep(h) ==
    \/ \E req \in Requests : Receive(h, req)
    \/ ReceiveMalformed(h)
    \/ Process(h)

\* One request processed from its first to its last step, no call failing, as
\* a function on the Subscriber table; seq is the request's number
ProcessSerially(tbl, req) ==
    LET normalizedMessage == ToUpperCase(Trim(req.body))
        existing == FindByPhoneNumber(tbl, req.from)
        matched  == FindByKeyword(keywords, normalizedMessage)
        intent   == Intent(normalizedMessage, matched)
        executed ==
            CASE intent = "optin" ->
                   IF existing # {}
                     THEN IF Some(existing).isActive THEN tbl
                          ELSE RepoUpdate(tbl, [Activate(Some(existing)) EXCEPT
                                        !.joinedViaKeyword = {Some(matched).keyword}])
                     ELSE RepoAdd(tbl, SubscriberCreate(Cardinality(tbl) + 1, req.from,
                                                        Some(matched).keyword, 0))
              [] intent = "optout" ->
                   IF existing # {} /\ Some(existing).isActive
                     THEN RepoUpdate(tbl, Deactivate(Some(existing)))
                     ELSE tbl
              [] OTHER -> tbl
        result ==
            CASE intent = "optin" ->
                   IF existing # {} /\ Some(existing).isActive THEN AlreadySubscribed
                   ELSE NewSubscriber(Some(matched))
              [] intent = "optout" ->
                   IF existing # {} /\ Some(existing).isActive THEN Unsubscribed
                   ELSE NotSubscribed
              [] OTHER -> HandleRegularMessage(existing)
        subscriber == FindByPhoneNumber(executed, req.from)
    IN IF result.notifySlack /\ subscriber # {} /\ Some(subscriber).slackThreadTs = {}
         THEN RepoUpdate(executed, [Some(subscriber) EXCEPT !.slackThreadTs = {req.seq}])
         ELSE executed

----------------------------------------------------------------------------
\* POST /api/keywords

\* The keyword requests tried: STOP unbound, JOIN bound to list L1, JOIN bound
\* to a list that does not exist, and an empty keyword
\* a normalization that trims and keeps the case
NormalizeKeywordTrimOnly(keyword) == Trim(keyword)

\* keyword.trim().toUpperCase() of the create and the update route
NormalizeKeyword(keyword) == ToUpperCase(Trim(keyword))

KeywordRequests ==
    {[keyword |-> BodyStop, listId |-> {}], [keyword |-> BodyJoin, listId |-> {"L1"}],
     [keyword |-> BodyJoin, listId |-> {"L9"}], [keyword |-> <<" ">>, listId |-> {}]}

\* SignupKeyword.create, as stored by PrismaSignupKeywordRepository.add
SignupKeywordCreate(keyword, autoResponse, listId) ==
    [keyword |-> ToUpperCase(keyword), autoResponse |-> autoResponse,
     isActive |-> TRUE, listId |-> listId]

\* the request is served only if it passes the checks; a rejected one (400, 409)
\* writes nothing
CreateKeyword(req) ==
    /\ Trim(req.keyword) # Empty
    /\ LET normalizedKeyword == NormalizeKeyword(req.keyword) IN
       /\ FindByKeyword(keywords, normalizedKeyword) = {}
       /\ req.listId \subseteq lists
       /\ keywords' = keywords \cup
                        {SignupKeywordCreate(normalizedKeyword, "Welcome!", req.listId)}
    /\ UNCHANGED <<subscribers, memberships, messages, clock, handler, delivered, faults,
                   log, others>>

----------------------------------------------------------------------------
\* PATCH and DELETE /api/keywords/[id]

\* The update bodies tried.  A field is absent ({}) or given; listId is given
\* as null ({}) or as an id.
KeywordPatches ==
    {[keyword |-> k, isActive |-> a, listId |-> l] :
        k \in {{}, {BodyTribe}, {BodyJoin}}, a \in {{}, {FALSE}},
        l \in {{}, {{}}, {{"L1"}}, {{"L9"}}}}

\* the update is served only if it passes the checks (a 404, 409 or 400 writes
\* nothing); k is the row the id of the request names
PatchKeyword(k, body) ==
    /\ k \in keywords
    /\ LET normalizedKeyword == NormalizeKeyword(Some(body.keyword))
           keywordCheck == FindByKeyword(keywords, normalizedKeyword)
           existingKeyword ==
               [k EXCEPT !.keyword = IF body.keyword # {} THEN normalizedKeyword ELSE @,
                         !.isActive = IF body.isActive # {} THEN Some(body.isActive) ELSE @,
                         !.listId = IF body.listId # {} THEN Some(body.listId) ELSE @]
       IN /\ body.keyword # {} => keywordCheck \subseteq {k}
          /\ body.listId # {} => Some(body.listId) \subseteq lists
          /\ keywords' = (keywords \ {k}) \cup {existingKeyword}
    /\ UNCHANGED <<subscribers, memberships, messages, clock, handler, delivered, faults,
                   log, others>>

\* keywordRepo.delete of a stored keyword
DeleteKeyword(k) ==
    /\ k \in keywords
    /\ keywords' = keywords \ {k}
    /\ UNCHANGED <<subscribers, memberships, messages, clock, handler, delivered, faults,
                   log, others>>

----------------------------------------------------------------------------
\* POST /api/keywords and PATCH /api/keywords/[id] as two store accesses each:
\* the checks, then the write.  Another request can be served in between.

NoKeywordRequest == [pc |-> "idle", kind |-> "none", row |-> {}, old |-> {}, status |-> 0]

\* an answer without a write
KeywordAnswer(code) == [NoKeywordRequest EXCEPT !.pc = "done", !.status = code]

\* a store that accepts any listId
ListIsStoredOrNot(tbl, listId) == TRUE

\* the relation of SignupKeyword.listId to SubscriberList (the routes read it
\* with include: {list}): the store accepts a row only if its listId is null or
\* the id of a stored list
ListIsStored(tbl, listId) == listId \subseteq tbl

\* the work a keyword request never touches
notKeywordRequest == <<subscribers, memberships, messages, clock, handler, delivered, limit,
                       faults, log, start, bc, sends, inbox, callback, links, clicks,
                       redirect, lists, ld, enrol>>

\* POST /api/keywords up to keywordRepo.add: 400 for an empty keyword or a list
\* that is not stored, 409 for a keyword that exists
KeywordCreateCheck(req) ==
    /\ kreq.pc \in {"idle", "done"}
    /\ LET normalizedKeyword == NormalizeKeyword(req.keyword) IN
       kreq' = IF Trim(req.keyword) = Empty THEN KeywordAnswer(400)
               ELSE IF FindByKeyword(keywords, normalizedKeyword) # {} THEN KeywordAnswer(409)
               ELSE IF ~(req.listId \subseteq lists) THEN KeywordAnswer(400)
               ELSE [NoKeywordRequest EXCEPT
                       !.pc = "write", !.kind = "create",
                       !.row = {SignupKeywordCreate(normalizedKeyword, "Welcome!",
                                                    req.listId)}]
    /\ UNCHANGED <<keywords, notKeywordRequest>>

\* PATCH /api/keywords/[id] up to keywordRepo.update; k is the row findById found
KeywordUpdateCheck(k, body) ==
    /\ kreq.pc \in {"idle", "done"}
    /\ k \in keywords
    /\ LET normalizedKeyword == NormalizeKeyword(Some(body.keyword))
           keywordCheck == FindByKeyword(keywords, normalizedKeyword)
           existingKeyword ==
               [k EXCEPT !.keyword = IF body.keyword # {} THEN normalizedKeyword ELSE @,
                         !.isActive = IF body.isActive # {} THEN Some(body.isActive) ELSE @,
                         !.listId = IF body.listId # {} THEN Some(body.listId) ELSE @]
       IN kreq' = IF body.keyword # {} /\ ~(keywordCheck \subseteq {k}) THEN KeywordAnswer(409)
                  ELSE IF body.listId # {} /\ ~(Some(body.listId) \subseteq lists)
                    THEN KeywordAnswer(400)
                  ELSE [NoKeywordRequest EXCEPT !.pc = "write", !.kind = "update",
                                                !.row = {existingKeyword}, !.old = {k}]
    /\ UNCHANGED <<keywords, notKeywordRequest>>

\* keywordRepo.add and keywordRepo.update: the row as the handler built it from
\* what it read, listId included.  The row of an update is the one with the id
\* of the request (here: with the keyword text it had when it was read, which
\* nothing else changes); the store refuses a keyword text another row has and
\* a listId that names no stored list, and the request ends in the catch
KeywordWrite ==
    /\ kreq.pc = "write"
    /\ \E dbOk \in BOOLEAN :
         LET row == Some(kreq.row)
             target == IF kreq.kind = "update"
                         THEN {k \in keywords : k.keyword = Some(kreq.old).keyword}
                         ELSE {}
             accepted == /\ dbOk
                         /\ kreq.kind = "update" => target # {}
                         /\ FindByKeyword(keywords \ target, row.keyword) = {}
                         /\ ListIsStored(lists, row.listId)
         IN /\ keywords' = IF accepted THEN (keywords \ target) \cup {row} ELSE keywords
            /\ kreq' = [kreq EXCEPT !.pc = "done",
                                    !.status = IF ~accepted THEN 500
                                               ELSE IF kreq.kind = "create" THEN 201
                                               ELSE 200]
    /\ UNCHANGED notKeywordRequest

----------------------------------------------------------------------------
\* DELETE /api/lists/[id]

NoListDelete == [pc |-> "idle", id |-> "", status |-> 0]

\* a count that leaves inactive keywords out
KeywordsUsingListActive(tbl, id) ==
    Cardinality({k \in tbl : k.listId = {id} /\ k.isActive})

\* prisma.signupKeyword.count({where: {listId: id}})
KeywordsUsingList(tbl, id) == Cardinality({k \in tbl : k.listId = {id}})

\* the work the list deletion never touches
notListDelete == <<subscribers, messages, clock, handler, delivered, limit, faults, log,
                   start, bc, sends, inbox, callback, links, clicks, redirect, enrol, kreq>>

\* listRepo.findById: 404 for a list that is not stored
ListDeleteStart(id) ==
    /\ ld.pc \in {"idle", "done"}
    /\ \E dbOk \in BOOLEAN :
         ld' = IF ~dbOk THEN [pc |-> "done", id |-> id, status |-> 500]
               ELSE IF id \notin lists THEN [pc |-> "done", id |-> id, status |-> 404]
               ELSE [pc |-> "count", id |-> id, status |-> 0]
    /\ UNCHANGED <<memberships, keywords, lists, notListDelete>>

\* the count of the keywords that use the list: 400 when there is one
ListDeleteCount ==
    /\ ld.pc = "count"
    /\ \E dbOk \in BOOLEAN :
         LET keywordsUsingList == KeywordsUsingList(keywords, ld.id) IN
         ld' = IF ~dbOk THEN [ld EXCEPT !.pc = "done", !.status = 500]
               ELSE IF keywordsUsingList > 0 THEN [ld EXCEPT !.pc = "done", !.status = 400]
               ELSE [ld EXCEPT !.pc = "delete"]
    /\ UNCHANGED <<memberships, keywords, lists, notListDelete>>

\* listRepo.delete.  What the store does with the rows that point to the list
\* is fixed by a schema that is not part of the sources: either the delete is
\* refused while memberships or keywords point to the list, or it removes the
\* list's memberships and detaches its keywords.
ListDeleteRun ==
    /\ ld.pc = "delete"
    /\ \E deleted \in BOOLEAN :
         LET pointed == \/ \E m \in memberships : m.listId = ld.id
                        \/ \E k \in keywords : k.listId = {ld.id}
         IN /\ ~deleted => pointed
            /\ IF deleted
                 THEN /\ lists' = lists \ {ld.id}
                      /\ memberships' = {m \in memberships : m.listId # ld.id}
                      /\ keywords' = {IF k.listId = {ld.id} THEN [k EXCEPT !.listId = {}]
                                       ELSE k : k \in keywords}
                      /\ ld' = [ld EXCEPT !.pc = "done", !.status = 200]
                 ELSE /\ ld' = [ld EXCEPT !.pc = "done", !.status = 500]
                      /\ UNCHANGED <<lists, memberships, keywords>>
    /\ UNCHANGED notListDelete

ListDeleteStep ==
    \/ \E id \in Lists \cup {"L9"} : ListDeleteStart(id)
    \/ ListDeleteCount
    \/ ListDeleteRun

----------------------------------------------------------------------------
\* POST /api/lists/[id]/members and POST /api/subscribers/bulk

NoEnrol ==
    [pc |-> "idle", kind |-> "none", listId |-> {}, phoneNumbers |-> <<>>, ids |-> <<>>,
     idx |-> 0, saw |-> FALSE, added |-> 0, skipped |-> 0, errors |-> 0, status |-> 0]

\* the answer of the request: its status and counters (the locals are gone)
Answered(e, code) ==
    [NoEnrol EXCEPT !.pc = "done", !.kind = e.kind, !.status = code, !.added = e.added,
                    !.skipped = e.skipped, !.errors = e.errors]

\* a store without the unique index on (subscriberId, listId)
UniqueViolationNever(tbl, listId, subscriberId) == FALSE

\* the unique index on (subscriberId, listId) refuses a second row of a pair
UniqueViolation(tbl, listId, subscriberId) ==
    \E m \in tbl : m.subscriberId = subscriberId /\ m.listId = listId

\* the work these two requests never touch
notEnrol == <<keywords, messages, handler, delivered, limit, faults, log, start, bc, sends,
              inbox, callback, links, clicks, redirect, lists, ld, kreq>>

\* The requests tried: a stored and a missing list; one id, the same id twice,
\* an id nobody has, no id
MemberRequests ==
    {[listId |-> l, subscriberIds |-> ids] :
        l \in {"L1", "L9"}, ids \in {<<1>>, <<1, 1>>, <<9>>, <<>>}}

\* POST /api/lists/[id]/members up to the loop
ManualAddStart(req) ==
    /\ enrol.pc \in {"idle", "done"}
    /\ LET idsToAdd == req.subscriberIds
           invalidIds == {sid \in Range(idsToAdd) : \A r \in subscribers : r.id # sid}
           e == [NoEnrol EXCEPT !.kind = "manual", !.listId = {req.listId}]
       IN enrol' = IF req.listId \notin lists THEN Answered(e, 404)
                   ELSE IF Len(idsToAdd) = 0 THEN Answered(e, 400)
                   ELSE IF invalidIds # {} THEN Answered(e, 400)
                   ELSE [e EXCEPT !.pc = "upsert", !.ids = idsToAdd, !.idx = 1]
    /\ UNCHANGED <<subscribers, memberships, clock, notEnrol>>

\* The imports tried: a number, the same number twice, a number of the wrong
\* format, nothing; with a stored list, a missing list or no list
BulkRequests ==
    {[phoneNumbers |-> p, listId |-> l] :
        p \in {<<Phone1>>, <<Phone1, Phone1>>, <<PhoneUk>>, <<>>},
        l \in {{}, {"L1"}, {"L9"}}}

\* POST /api/subscribers/bulk up to the loop over the phone numbers
BulkStart(req) ==
    /\ enrol.pc \in {"idle", "done"}
    /\ LET e == [NoEnrol EXCEPT !.kind = "bulk", !.listId = req.listId]
       IN enrol' = IF Len(req.phoneNumbers) = 0 THEN Answered(e, 400)
                   ELSE IF ~(req.listId \subseteq lists) THEN Answered(e, 404)
                   ELSE [e EXCEPT !.pc = "import", !.phoneNumbers = req.phoneNumbers,
                                  !.idx = 1]
    /\ UNCHANGED <<subscribers, memberships, clock, notEnrol>>

\* where the import goes after its last phone number
AfterImport(e) ==
    IF e.idx <= Len(e.phoneNumbers) THEN e
    ELSE IF e.listId # {} /\ Len(e.ids) > 0 THEN [e EXCEPT !.pc = "upsert", !.idx = 1]
    ELSE Answered(e, 200)

\* one phone number of the import: the format check, findUnique, create; a
\* refused create is counted as an error of that entry
BulkEntry ==
    /\ enrol.pc = "import"
    /\ LET phoneNumber == enrol.phoneNumbers[enrol.idx]
           existing == {r \in subscribers : r.phoneNumber = phoneNumber}
           new == [SubscriberCreate(Cardinality(subscribers) + 1, phoneNumber, TRIBE, NextTick)
                     EXCEPT !.joinedViaKeyword = {}]
           e == [enrol EXCEPT !.idx = @ + 1]
       IN IF ~IsValidPhoneNumber(phoneNumber)
            THEN /\ enrol' = AfterImport([e EXCEPT !.errors = @ + 1])
                 /\ UNCHANGED <<subscribers, clock>>
          ELSE IF existing # {}
            THEN /\ enrol' = AfterImport([e EXCEPT !.skipped = @ + 1,
                                                   !.ids = Append(@, Some(existing).id)])
                 /\ UNCHANGED <<subscribers, clock>>
          ELSE IF CanAdd(subscribers, new)
            THEN /\ subscribers' = RepoAdd(subscribers, new)
                 /\ clock' = NextTick
                 /\ enrol' = AfterImport([e EXCEPT !.added = @ + 1,
                                                   !.ids = Append(@, new.id)])
          ELSE /\ enrol' = AfterImport([e EXCEPT !.errors = @ + 1])
               /\ UNCHANGED <<subscribers, clock>>
    /\ UNCHANGED <<memberships, notEnrol>>

\* listRepo.addMember, first half: the upsert looks for the row of the pair
UpsertRead ==
    /\ enrol.pc = "upsert"
    /\ enrol' = [enrol EXCEPT !.pc = "write",
                              !.saw = UniqueViolation(memberships, Some(enrol.listId),
                                                      enrol.ids[enrol.idx])]
    /\ UNCHANGED <<subscribers, memberships, clock, notEnrol>>

\* listRepo.addMember, second half: update {} of the row found, else the
\* insert, which the unique index refuses when a row of the pair has appeared
\* since.  The members route counts the refusal as skipped; the import does not
\* catch it and ends in its outer catch.
UpsertWrite ==
    /\ enrol.pc = "write"
    /\ LET listId == Some(enrol.listId)
           subscriberId == enrol.ids[enrol.idx]
           last == enrol.idx = Len(enrol.ids)
           next(r) == IF last THEN Answered(r, 200)
                      ELSE [r EXCEPT !.idx = @ + 1, !.pc = "upsert", !.saw = FALSE]
           joinedVia == IF enrol.kind = "manual" THEN <<"manual">> ELSE <<"bulk-import">>
       IN IF enrol.saw
            THEN /\ enrol' = IF enrol.kind = "manual"
                                THEN next([enrol EXCEPT !.added = @ + 1]) ELSE next(enrol)
                 /\ UNCHANGED memberships
          ELSE IF UniqueViolation(memberships, listId, subscriberId)
            THEN /\ enrol' = IF enrol.kind = "manual"
                                THEN next([enrol EXCEPT !.skipped = @ + 1])
                                ELSE Answered(enrol, 500)
                 /\ UNCHANGED memberships
          ELSE /\ memberships' = memberships \cup
                                    {MembershipRow(listId, subscriberId, joinedVia, clock)}
               /\ enrol' = IF enrol.kind = "manual"
                              THEN next([enrol EXCEPT !.added = @ + 1]) ELSE next(enrol)
    /\ UNCHANGED <<subscribers, clock, notEnrol>>

EnrolStep ==
    \/ \E req \in MemberRequests : ManualAddStart(req)
    \/ \E req \in BulkRequests : BulkStart(req)
    \/ BulkEntry
    \/ UpsertRead
    \/ UpsertWrite

----------------------------------------------------------------------------
\* LinkShortener.  In a draft the one character "S" stands for the scheme
\* https:// and "T" for the tracking prefix <baseUrl>/sanctuary/.

\* the end of the run of non-space characters that starts at position i
RECURSIVE RunEnd(_, _)
RunEnd(s, i) == IF i < Len(s) /\ s[i + 1] # " " THEN RunEnd(s, i + 1) ELSE i

\* message.match(/(https?:\/\/[^\s]+)/g): the matches from position i on, left to right
RECURSIVE Matches(_, _)
Matches(s, i) ==
    IF i > Len(s) THEN <<>>
    ELSE IF s[i] = "S" /\ i < Len(s) /\ s[i + 1] # " "
      THEN <<SubSeq(s, i, RunEnd(s, i))>> \o Matches(s, RunEnd(s, i) + 1)
      ELSE Matches(s, i + 1)

\* [...new Set(matches)]: duplicates removed, first occurrences kept in order
RECURSIVE Distinct(_)
Distinct(seq) ==
    IF seq = <<>> THEN <<>>
    ELSE LET init == SubSeq(seq, 1, Len(seq) - 1)
             last == seq[Len(seq)]
         IN IF last \in Range(init) THEN Distinct(init)
            ELSE Append(Distinct(init), last)

\* LinkShortener.extractUrls
ExtractUrls(message) == Distinct(Matches(message, 1))

\* the positions at which pat occurs in s
Occurrences(s, pat) ==
    {i \in 1..(Len(s) - Len(pat) + 1) : SubSeq(s, i, i + Len(pat) - 1) = pat}

\* String.prototype.replace(pat, by) with a string pattern: the first occurrence only
ReplaceFirst(s, pat, by) ==
    IF Occurrences(s, pat) = {} THEN s
    ELSE LET i == CHOOSE x \in Occurrences(s, pat) : \A y \in Occurrences(s, pat) : x <= y
         IN SubSeq(s, 1, i - 1) \o by \o SubSeq(s, i + Len(pat), Len(s))

\* `${baseUrl}/sanctuary/${shortCode}`
TrackingUrl(shortCode) == <<"T", shortCode>>

\* generateShortCode draws eight random characters; two draws can coincide
ShortCodes == {"c1", "c2"}

\* what processMessage has done so far
NoLinks(message) ==
    [processedMessage |-> message, links |-> <<>>, rows |-> {}, failed |-> FALSE,
     collided |-> FALSE]

\* LinkShortener.processMessage from its k-th extracted URL on.  codes[k] is the
\* short code drawn for that URL and ok[k] tells whether the store accepts the
\* Link row; the unique index on shortCode rejects a code that is taken.  A
\* rejected row ends the call with an exception; rows stored before it stay.
\* One code is drawn for a URL; collided tells that the store was willing and
\* the row was rejected for its code alone.
RECURSIVE ProcessFrom(_, _, _, _, _, _, _, _)
ProcessFrom(k, urls, broadcastId, approvedUrls, codes, ok, tbl, acc) ==
    IF k > Len(urls) THEN acc
    ELSE IF approvedUrls # {} /\ urls[k] \notin Range(Some(approvedUrls))
      THEN ProcessFrom(k + 1, urls, broadcastId, approvedUrls, codes, ok, tbl, acc)
    ELSE IF ~ok[k] \/ \E r \in tbl \cup acc.rows : r.shortCode = codes[k]
      THEN [acc EXCEPT !.failed = TRUE, !.collided = ok[k]]
    ELSE ProcessFrom(k + 1, urls, broadcastId, approvedUrls, codes, ok, tbl,
             [acc EXCEPT
                !.rows = @ \cup {[broadcastId |-> broadcastId, originalUrl |-> urls[k],
                                  shortCode |-> codes[k]]},
                !.links = Append(@, [originalUrl |-> urls[k], shortCode |-> codes[k],
                                     trackingUrl |-> TrackingUrl(codes[k])]),
                !.processedMessage = ReplaceFirst(@, urls[k], TrackingUrl(codes[k]))])

\* LinkShortener.processMessage
ProcessMessage(message, broadcastId, approvedUrls, codes, ok, tbl) ==
    ProcessFrom(1, ExtractUrls(message), broadcastId, approvedUrls, codes, ok, tbl,
                NoLinks(message))

\* a lookup that does not select by short code
GetOriginalUrlOfAny(tbl, shortCode) == {r.originalUrl : r \in tbl}

\* LinkShortener.getOriginalUrl: findUnique by shortCode
GetOriginalUrl(tbl, shortCode) == {r.originalUrl : r \in {x \in tbl : x.shortCode = shortCode}}

----------------------------------------------------------------------------
\* POST /api/broadcast

Phone2 == <<"+","1","5","5","5","1","2","3","4","5","6","8">>
Phone3 == <<"+","1","5","5","5","1","2","3","4","5","6","9">>

\* orderBy: {joinedAt: 'asc'}
RECURSIVE OrderByJoinedAt(_)
OrderByJoinedAt(S) ==
    IF S = {} THEN <<>>
    ELSE LET first == CHOOSE x \in S : \A y \in S : x.joinedAt <= y.joinedAt
         IN <<first>> \o OrderByJoinedAt(S \ {first})

\* PrismaSubscriberRepository.findAllActive
FindAllActive(tbl) ==
    OrderByJoinedAt({FromPersistence(r) : r \in {x \in tbl : x.isActive}})

\* PrismaSubscriberRepository.findActiveByListIds
FindActiveByListIds(tbl, mems, listIds) ==
    IF Len(listIds) = 0 THEN <<>>
    ELSE OrderByJoinedAt({FromPersistence(r) : r \in
           {x \in tbl : /\ x.isActive
                         /\ \E m \in mems : /\ m.subscriberId = x.id
                                             /\ m.listId \in Range(listIds)}})

\* The broadcast requests tried for the targeting.  targetAll is absent ({}),
\* true or false; the message holds no URL.
BroadcastRequests ==
    {[message |-> m, approvedLinks |-> {}, targetAll |-> t, targetListIds |-> l,
      excludeListIds |-> e] :
        m \in {BodyHi}, t \in {{}, {TRUE}, {FALSE}},
        l \in {<<>>, <<"L1">>, <<"L1", "L2">>}, e \in {<<>>, <<"L2">>}}
      \cup {[message |-> <<" ">>, approvedLinks |-> {}, targetAll |-> {},
              targetListIds |-> <<>>, excludeListIds |-> <<>>]}

\* body.targetAll !== false
TargetAll(req) == req.targetAll # {FALSE}

\* targetAll || targetListIds.length === 0
EffectiveTargetAll(req) == TargetAll(req) \/ Len(req.targetListIds) = 0

NoBroadcast ==
    [pc |-> "idle", req |-> {}, audience |-> <<>>, idx |-> 0, broadcastId |-> {},
     targets |-> {}, processedMessage |-> <<>>, links |-> <<>>, linksFailed |-> FALSE,
     linksCollided |-> FALSE, unlogged |-> {},
     results |-> <<>>, errors |-> <<>>, status |-> 0, body |-> {}]

\* the answers of the handler
MessageRequired == [error |-> "Message is required"]
NoSubscribers == [error |-> "No active subscribers found for the selected target"]
BroadcastFailed == [error |-> "Failed to send broadcast"]

FirstN(seq, n) == SubSeq(seq, 1, IF Len(seq) < n THEN Len(seq) ELSE n)

\* a summary that takes the whole audience for sent
SummaryOfAudience(b) ==
    [success |-> TRUE, broadcastId |-> b.broadcastId, sentTo |-> Len(b.audience),
     failed |-> Len(b.errors), linksTracked |-> Len(b.links),
     targetAll |-> EffectiveTargetAll(Some(b.req)),
     results |-> FirstN(b.results, 10), errors |-> FirstN(b.errors, 5)]

\* the summary: sentTo and failed are the lengths of the two lists of the loop
Summary(b) ==
    [success |-> TRUE, broadcastId |-> b.broadcastId, sentTo |-> Len(b.results),
     failed |-> Len(b.errors), linksTracked |-> Len(b.links),
     targetAll |-> EffectiveTargetAll(Some(b.req)),
     results |-> FirstN(b.results, 10), errors |-> FirstN(b.errors, 5)]

\* the work the broadcast never touches
notBroadcast == <<subscribers, memberships, keywords, handler, delivered, limit, faults,
                  log, start, inbox, callback, clicks, redirect, lists, ld, enrol, kreq>>

\* request.json(), validation and audience resolution
BroadcastStart(req) ==
    /\ bc.pc = "idle"
    /\ \E dbOk \in BOOLEAN :
         LET activeSubscribers ==
                 IF EffectiveTargetAll(req)
                   THEN FindAllActive(subscribers)
                   ELSE FindActiveByListIds(subscribers, memberships, req.targetListIds)
             b == [bc EXCEPT !.req = {req}]
         IN bc' = IF Trim(req.message) = Empty
                    THEN [b EXCEPT !.pc = "done", !.status = 400, !.body = {MessageRequired}]
                  ELSE IF ~dbOk
                    THEN [b EXCEPT !.pc = "done", !.status = 500, !.body = {BroadcastFailed}]
                  ELSE IF Len(activeSubscribers) = 0
                    THEN [b EXCEPT !.pc = "done", !.status = 400, !.body = {NoSubscribers}]
                  ELSE [b EXCEPT !.pc = "create", !.audience = activeSubscribers]
    /\ UNCHANGED <<messages, clock, sends, links, notBroadcast>>

\* the data of broadcastTarget.createMany: a row per targeted list, made of the
\* broadcast and the list; the route names no type, which leaves the column to
\* the store ({})
TargetRows(req) == {[listId |-> l, type |-> {}] : l \in Range(req.targetListIds)}

\* prisma.broadcast.create and broadcastTarget.createMany: a failure leaves the
\* campaign without a record and the sends go on
BroadcastCreate ==
    /\ bc.pc = "create"
    /\ \E created \in BOOLEAN, targeted \in BOOLEAN :
         LET req == Some(bc.req) IN
         /\ ~created => ~targeted
         /\ EffectiveTargetAll(req) => targeted = created
         /\ bc' = [bc EXCEPT !.pc = "links",
                             !.broadcastId = IF created THEN {"B1"} ELSE {},
                             !.targets = IF targeted /\ ~EffectiveTargetAll(req)
                                           THEN TargetRows(req) ELSE {}]
    /\ UNCHANGED <<messages, clock, sends, links, notBroadcast>>

\* Link processing: skipped without a campaign record; a failure of
\* processMessage falls back to the original message and an empty links list
BroadcastTokenize ==
    /\ bc.pc = "links"
    /\ LET req == Some(bc.req)
           urls == ExtractUrls(req.message)
       IN IF bc.broadcastId = {}
            THEN /\ bc' = [bc EXCEPT !.pc = "send", !.idx = 1,
                                     !.processedMessage = req.message]
                 /\ UNCHANGED links
            ELSE \E codes \in [1..Len(urls) -> ShortCodes], ok \in [1..Len(urls) -> BOOLEAN] :
                   LET result == ProcessMessage(req.message, Some(bc.broadcastId),
                                                req.approvedLinks, codes, ok, links)
                   IN /\ links' = links \cup result.rows
                      /\ bc' = IF result.failed
                                 THEN [bc EXCEPT !.pc = "send", !.idx = 1,
                                                 !.processedMessage = req.message,
                                                 !.linksFailed = TRUE,
                                                 !.linksCollided = result.collided]
                                 ELSE [bc EXCEPT !.pc = "send", !.idx = 1,
                                                 !.processedMessage = result.processedMessage,
                                                 !.links = result.links]
    /\ UNCHANGED <<messages, clock, sends, notBroadcast>>

\* the catch of a failed send, but for the FAILED row; the loop goes on; a second
\* attempt is made first
OnSendErrorRetry(b, phone) ==
    [b EXCEPT !.errors = Append(@, phone),
              !.idx = IF phone \in Range(b.errors) THEN @ + 1 ELSE @]

\* a failed send that is rethrown and ends the request in the outer catch
OnSendErrorAbort(b, phone) ==
    [b EXCEPT !.pc = "done", !.status = 500, !.body = {BroadcastFailed}]

\* the catch of a failed send, but for the FAILED row; the loop goes on
OnSendError(b, phone) ==
    [b EXCEPT !.errors = Append(@, phone), !.idx = @ + 1]

\* a log that records every attempt as sent
OutboundRowAlwaysSent(b, phone, sent, now) ==
    [NewMessage(phone, b.processedMessage, "OUTBOUND", now)
       EXCEPT !.broadcastId = b.broadcastId, !.twilioSid = {b.idx},
              !.deliveryStatus = "SENT"]

\* the data of prisma.message.create in the loop: SENT with the gateway's
\* message id after a send, FAILED without one in the catch
OutboundRow(b, phone, sent, now) ==
    [NewMessage(phone, b.processedMessage, "OUTBOUND", now)
       EXCEPT !.broadcastId = b.broadcastId,
              !.twilioSid = IF sent THEN {b.idx} ELSE {},
              !.deliveryStatus = IF sent THEN "SENT" ELSE "FAILED"]

\* one round of the loop: sendMessage, then the OUTBOUND row (SENT with the
\* gateway's id, or FAILED when a campaign record exists); logging is best
\* effort, and unlogged keeps the recipients whose row the store refused
BroadcastSend ==
    /\ bc.pc = "send"
    /\ bc.idx <= Len(bc.audience)
    /\ LET subscriber == bc.audience[bc.idx]
           req == Some(bc.req)
       IN \E sent \in BOOLEAN, logged \in BOOLEAN :
          LET row == OutboundRow(bc, subscriber.phoneNumber, sent, NextTick)
              stored == logged /\ (sent \/ bc.broadcastId # {})
              b == [bc EXCEPT !.unlogged = IF logged THEN @
                                           ELSE @ \cup {subscriber.phoneNumber}]
          IN /\ ~sent /\ bc.broadcastId = {} => logged
             /\ sends' = Append(sends, [to |-> subscriber.phoneNumber,
                                     body |-> bc.processedMessage, ok |-> sent])
             /\ bc' = IF sent
                        THEN [b EXCEPT !.results = Append(@, subscriber.phoneNumber),
                                       !.idx = @ + 1]
                        ELSE OnSendError(b, subscriber.phoneNumber)
             /\ messages' = IF stored THEN Append(messages, row) ELSE messages
             /\ clock' = IF stored THEN NextTick ELSE clock
    /\ UNCHANGED <<links, notBroadcast>>

\* the summary
BroadcastRespond ==
    /\ bc.pc = "send"
    /\ bc.idx > Len(bc.audience)
    /\ bc' = [bc EXCEPT !.pc = "done", !.status = 200, !.body = {Summary(bc)}]
    /\ UNCHANGED <<messages, clock, sends, links, notBroadcast>>

BroadcastStep ==
    \/ \E req \in BroadcastRequests : BroadcastStart(req)
    \/ BroadcastCreate
    \/ BroadcastTokenize
    \/ BroadcastSend
    \/ BroadcastRespond

----------------------------------------------------------------------------
\* POST /api/webhooks/delivery-status

\* The callbacks tried: MessageSid absent, of a broadcast message, unknown;
\* MessageStatus absent or one of the gateway's
CallbackSids == {{}, {1}, {2}, {9}}
CallbackStatuses == {{}, {"delivered"}, {"failed"}, {"undelivered"}, {"sent"}, {"queued"}}

NoCallback == [sid |-> {}, messageStatus |-> {}, status |-> 0]

\* the switch on MessageStatus
MapStatus(messageStatus) ==
    CASE messageStatus = "delivered" -> "DELIVERED"
      [] messageStatus = "failed" -> "FAILED"
      [] messageStatus = "undelivered" -> "UNDELIVERED"
      [] OTHER -> "SENT"

\* prisma.message.update({where: {twilioSid}, data: {deliveryStatus}})
UpdateDeliveryStatus(tbl, sid, deliveryStatus) ==
    [i \in 1..Len(tbl) |->
        IF tbl[i].twilioSid = sid THEN [tbl[i] EXCEPT !.deliveryStatus = deliveryStatus]
        ELSE tbl[i]]

DeliveryStatus(sid, messageStatus) ==
    /\ delivered < limit
    /\ delivered' = delivered + 1
    /\ \E dbOk \in BOOLEAN :
         LET found == \E i \in 1..Len(messages) : messages[i].twilioSid = sid
             answer(code) == [sid |-> sid, messageStatus |-> messageStatus, status |-> code]
         IN IF sid = {} \/ messageStatus = {}
              THEN dbOk /\ callback' = answer(400) /\ UNCHANGED messages
            ELSE IF ~dbOk
              THEN callback' = answer(500) /\ UNCHANGED messages
            ELSE IF ~found
              THEN callback' = answer(200) /\ UNCHANGED messages
            ELSE /\ messages' = UpdateDeliveryStatus(messages, sid,
                                                     MapStatus(Some(messageStatus)))
                 /\ callback' = answer(200)
    /\ UNCHANGED <<subscribers, memberships, keywords, clock, handler, limit, faults, log,
                   start, bc, sends, inbox, links, clicks, redirect, lists, ld, enrol, kreq>>

----------------------------------------------------------------------------
\* GET /sanctuary/[code]

NoRedirect == [code |-> "", status |-> 0, location |-> {}]

\* the click redirector: 404 for an unknown code, else the click is recorded
\* (best effort) and the answer is a 308 to the original URL; 500 when the
\* lookup fails
Click(shortCode, sid) ==
    /\ Len(clicks) < MaxClicks
    /\ \E dbOk \in BOOLEAN, recorded \in BOOLEAN :
         LET originalUrl == GetOriginalUrl(links, shortCode)
             answer(code, to) == [code |-> shortCode, status |-> code, location |-> to]
         IN /\ (~dbOk \/ originalUrl = {}) => recorded
            /\ redirect' = IF ~dbOk THEN answer(500, {})
                           ELSE IF originalUrl = {} THEN answer(404, {})
                           ELSE answer(308, originalUrl)
            /\ clicks' = IF dbOk /\ originalUrl # {} /\ recorded
                           THEN Append(clicks, [shortCode |-> shortCode, subscriberId |-> sid])
                           ELSE clicks
    /\ UNCHANGED <<subscribers, memberships, keywords, messages, clock, handler, delivered,
                   limit, faults, log, start, bc, sends, inbox, callback, links, lists, ld,
                   enrol, kreq>>

----------------------------------------------------------------------------
\* The inbox: GET /api/inbox, GET /api/inbox/stats,
\* POST /api/subscribers/[id]/reply, POST /api/conversations/[id]/mark-unread

NoAnswer == [op |-> "none", status |-> 0, body |-> {}]
Unauthorized(op) == [op |-> op, status |-> 401, body |-> {}]

\* the messages relation of a subscriber: the rows with its phone number
MessagesOf(phone) == {m \in Range(messages) : m.phoneNumber = phone}

\* orderBy: {createdAt: 'desc'}, take: 1
Latest(rows) == CHOOSE m \in rows : \A n \in rows : n.createdAt <= m.createdAt

\* !subscriber.lastReadAt || new Date(createdAt) > new Date(subscriber.lastReadAt)
IsAfter(createdAt, lastReadAt) == lastReadAt = {} \/ createdAt > Some(lastReadAt)

\* hasUnread of the list: read off the single latest message of the subscriber
HasUnread(r) ==
    LET rows == MessagesOf(r.phoneNumber) IN
    /\ rows # {}
    /\ Latest(rows).direction = "INBOUND"
    /\ IsAfter(Latest(rows).createdAt, r.lastReadAt)

\* one entry of the list
Conversation(r) ==
    LET rows == MessagesOf(r.phoneNumber) IN
    [id |-> r.id, lastReadAt |-> r.lastReadAt, hasUnread |-> HasUnread(r),
     lastMessage |-> IF rows = {} THEN {}
                     ELSE {[direction |-> Latest(rows).direction,
                            createdAt |-> Latest(rows).createdAt]}]

\* the stats' test of a subscriber: its latest INBOUND message against lastReadAt
CountsAsUnread(r) ==
    LET rows == {m \in MessagesOf(r.phoneNumber) : m.direction = "INBOUND"} IN
    /\ rows # {}
    /\ IsAfter(Latest(rows).createdAt, r.lastReadAt)

\* the work the admin endpoints never touch
notAdmin == <<memberships, keywords, handler, delivered, limit, faults, log, start, bc,
              sends, callback, links, clicks, redirect, lists, ld, enrol, kreq>>

\* GET /api/inbox with filter=all and no search
InboxList(session) ==
    /\ inbox' = IF ~session THEN Unauthorized("list")
                ELSE [op |-> "list", status |-> 200,
                      body |-> {Conversation(r) : r \in {x \in subscribers : x.isActive}}]
    /\ UNCHANGED <<subscribers, messages, clock, notAdmin>>

\* GET /api/inbox/stats
InboxStats(session) ==
    /\ inbox' = IF ~session THEN Unauthorized("stats")
                ELSE LET active == {x \in subscribers : x.isActive} IN
                     [op |-> "stats", status |-> 200,
                      body |-> {[unreadCount |->
                                    Cardinality({r \in active : CountsAsUnread(r)}),
                                 totalConversations |-> Cardinality(active)]}]
    /\ UNCHANGED <<subscribers, messages, clock, notAdmin>>

\* The replies tried: to the first subscriber and to an id nobody has, with a
\* text and with a blank message
ReplyText == <<"o","k">>
SubscriberIds == {1, 9}

AdminReplies ==
    Cardinality({i \in 1..Len(messages) : messages[i].content = ReplyText})

\* POST /api/subscribers/[id]/reply: the send, then the OUTBOUND row; lastReadAt
\* is not written
AdminReply(id, message) ==
    /\ AdminReplies < MaxReplies
    /\ \E sent \in BOOLEAN, stored \in BOOLEAN :
         LET found == {r \in subscribers : r.id = id}
             answer(code) == [op |-> "reply", status |-> code, body |-> {}]
             checked == Trim(message) # Empty /\ found # {} /\ Some(found).isActive
         IN /\ ~checked => sent /\ stored
            /\ ~sent => stored
            /\ inbox' = IF Trim(message) = Empty THEN answer(400)
                        ELSE IF found = {} THEN answer(404)
                        ELSE IF ~Some(found).isActive THEN answer(400)
                        ELSE IF sent /\ stored THEN answer(200)
                        ELSE answer(500)
            /\ messages' = IF checked /\ sent /\ stored
                             THEN Append(messages, NewMessage(Some(found).phoneNumber,
                                                              message, "OUTBOUND", NextTick))
                             ELSE messages
            /\ clock' = IF checked /\ sent /\ stored THEN NextTick ELSE clock
    /\ UNCHANGED <<subscribers, notAdmin>>

\* POST /api/conversations/[id]/mark-unread
MarkUnread(session, id) ==
    /\ LET found == {r \in subscribers : r.id = id}
           answer(code) == [op |-> "markunread", status |-> code, body |-> {}]
       IN IF ~session
            THEN inbox' = Unauthorized("markunread") /\ UNCHANGED subscribers
          ELSE IF found = {}
            THEN inbox' = answer(404) /\ UNCHANGED subscribers
          ELSE /\ subscribers' = SetLastReadAt(subscribers, id, {})
               /\ inbox' = answer(200)
    /\ UNCHANGED <<messages, clock, notAdmin>>

\* an updateMany that reaches the active subscribers only
SetAllLastReadAtActive(tbl, value) ==
    {IF r.isActive THEN [r EXCEPT !.lastReadAt = value] ELSE r : r \in tbl}

\* prisma.subscriber.updateMany({data: {lastReadAt}}): no where clause
SetAllLastReadAt(tbl, value) == {[r EXCEPT !.lastReadAt = value] : r \in tbl}

\* POST /api/inbox/mark-all-read.  new Date() is taken in the tick of the last
\* timestamp: a later tick compares with every stored and every later message
\* as this one does.
MarkAllRead(session) ==
    /\ \E dbOk \in BOOLEAN :
         LET now == clock
             answer(code, body) == [op |-> "markallread", status |-> code, body |-> body]
         IN /\ ~session => dbOk
            /\ IF ~session
                 THEN inbox' = Unauthorized("markallread") /\ UNCHANGED subscribers
               ELSE IF ~dbOk
                 THEN inbox' = answer(500, {}) /\ UNCHANGED subscribers
               ELSE /\ subscribers' = SetAllLastReadAt(subscribers, {now})
                    /\ inbox' = answer(200, {[success |-> TRUE,
                                              updatedCount |-> Cardinality(subscribers)]})
    /\ UNCHANGED <<messages, clock, notAdmin>>

AdminStep ==
    \/ \E session \in BOOLEAN : InboxList(session)
    \/ \E session \in BOOLEAN : InboxStats(session)
    \/ \E id \in SubscriberIds, message \in {ReplyText, <<" ">>} : AdminReply(id, message)
    \/ \E session \in BOOLEAN, id \in SubscriberIds : MarkUnread(session, id)

----------------------------------------------------------------------------
\* Specifications

SeedKeywords == {[keyword |-> TRIBE, autoResponse |-> "Welcome to SANCTUARY!",
                  isActive |-> TRUE, listId |-> {}]}

Init ==
    /\ subscribers = {}
    /\ memberships = {}
    /\ keywords = SeedKeywords
    /\ messages = <<>>
    /\ clock = 0
    /\ handler = [h \in Handlers |-> Idle]
    /\ delivered = 0
    /\ limit = MaxWebhooks
    /\ faults = 0
    /\ log = <<>>
    /\ start = {}
    /\ bc = NoBroadcast
    /\ sends = <<>>
    /\ inbox = NoAnswer
    /\ callback = NoCallback
    /\ links = {}
    /\ clicks = <<>>
    /\ redirect = NoRedirect
    /\ lists = Lists
    /\ ld = NoListDelete
    /\ enrol = NoEnrol
    /\ kreq = NoKeywordRequest

\* one webhook request at a time, and keyword administration
Next ==
    \/ WebhookStep(1)
    \/ \E req \in KeywordRequests : CreateKeyword(req)

Spec == Init /\ [][Next]_vars

\* the same system in runs in which no call to the store, the gateway or the
\* notifier fails, with JOIN bound to list L1 from the start
InitSeq ==
    /\ subscribers = {}
    /\ memberships = {}
    /\ keywords = SeedKeywords \cup {SignupKeywordCreate(JOIN, "Welcome!", {"L1"})}
    /\ messages = <<>>
    /\ clock = 0
    /\ handler = [h \in Handlers |-> Idle]
    /\ delivered = 0
    /\ limit = MaxSequence
    /\ faults = MaxFaults
    /\ log = <<>>
    /\ start = {}
    /\ bc = NoBroadcast
    /\ sends = <<>>
    /\ inbox = NoAnswer
    /\ callback = NoCallback
    /\ links = {}
    /\ clicks = <<>>
    /\ redirect = NoRedirect
    /\ lists = Lists
    /\ ld = NoListDelete
    /\ enrol = NoEnrol
    /\ kreq = NoKeywordRequest

SpecSeq == InitSeq /\ [][Next]_vars

InitInbox ==
    /\ subscribers = {}
    /\ memberships = {}
    /\ keywords = SeedKeywords \cup {SignupKeywordCreate(JOIN, "Welcome!", {"L1"})}
    /\ messages = <<>>
    /\ clock = 0
    /\ handler = [h \in Handlers |-> Idle]
    /\ delivered = 0
    /\ limit = MaxWebhooks
    /\ faults = MaxFaults
    /\ log = <<>>
    /\ start = {}
    /\ bc = NoBroadcast
    /\ sends = <<>>
    /\ inbox = NoAnswer
    /\ callback = NoCallback
    /\ links = {}
    /\ clicks = <<>>
    /\ redirect = NoRedirect
    /\ lists = Lists
    /\ ld = NoListDelete
    /\ enrol = NoEnrol
    /\ kreq = NoKeywordRequest

\* Two requests from one phone number served by two handlers whose steps
\* interleave; no call fails.  The number is unknown, or belongs to a subscriber
\* (active or not) who has no notifier thread yet.
RaceRequests == {r \in Requests : r.from = Phone1 /\ r.to # Empty /\ r.body # Empty}

StoredSubscriber(active) ==
    [id |-> 1, phoneNumber |-> Phone1, isActive |-> active, joinedAt |-> 0,
     slackThreadTs |-> {}, joinedViaKeyword |-> {TRIBE}, lastReadAt |-> {}]

InitRace ==
    /\ subscribers \in {{}, {StoredSubscriber(TRUE)}, {StoredSubscriber(FALSE)}}
    /\ memberships = {}
    /\ keywords = SeedKeywords \cup {SignupKeywordCreate(JOIN, "Welcome!", {"L1"})}
    /\ messages = <<>>
    /\ clock = 0
    /\ handler = [h \in Handlers |-> Idle]
    /\ delivered = 0
    /\ limit = Cardinality(Handlers)
    /\ faults = MaxFaults
    /\ log = <<>>
    /\ start = subscribers
    /\ bc = NoBroadcast
    /\ sends = <<>>
    /\ inbox = NoAnswer
    /\ callback = NoCallback
    /\ links = {}
    /\ clicks = <<>>
    /\ redirect = NoRedirect
    /\ lists = Lists
    /\ ld = NoListDelete
    /\ enrol = NoEnrol
    /\ kreq = NoKeywordRequest

NextRace ==
    \E h \in Handlers :
        \/ \E req \in RaceRequests : Receive(h, req)
        \/ Process(h)

SpecRace == InitRace /\ [][NextRace]_vars

\* One broadcast.  Three
\* subscribers A, B, C who joined in that order, A and C active or not;
\* list L1 holds A and B, list L2 holds B and C.
ListedSubscriber(id, phone, active) ==
    [id |-> id, phoneNumber |-> phone, isActive |-> active, joinedAt |-> id,
     slackThreadTs |-> {}, joinedViaKeyword |-> {TRIBE}, lastReadAt |-> {}]

ManualMember(id, listId) ==
    [subscriberId |-> id, listId |-> listId, joinedVia |-> <<"manual">>, joinedAt |-> id]

InitBroadcast ==
    /\ \E a \in BOOLEAN, c \in BOOLEAN :
         subscribers = {ListedSubscriber(1, Phone1, a), ListedSubscriber(2, Phone2, TRUE),
                        ListedSubscriber(3, Phone3, c)}
    /\ memberships = {ManualMember(1, "L1"), ManualMember(2, "L1"),
                      ManualMember(2, "L2"), ManualMember(3, "L2")}
    /\ keywords = SeedKeywords
    /\ messages = <<>>
    /\ clock = Cardinality(subscribers)
    /\ handler = [h \in Handlers |-> Idle]
    /\ delivered = 0
    /\ limit = MaxCallbacks
    /\ faults = 0
    /\ log = <<>>
    /\ start = {}
    /\ bc = NoBroadcast
    /\ sends = <<>>
    /\ inbox = NoAnswer
    /\ callback = NoCallback
    /\ links = {}
    /\ clicks = <<>>
    /\ redirect = NoRedirect
    /\ lists = Lists
    /\ ld = NoListDelete
    /\ enrol = NoEnrol
    /\ kreq = NoKeywordRequest

NextBroadcast == BroadcastStep

SpecBroadcast == InitBroadcast /\ [][NextBroadcast]_vars

\* A broadcast to list L1 and the delivery-status callbacks that follow its sends
DeliveryBroadcasts ==
    {r \in BroadcastRequests : /\ r.targetAll = {FALSE}
                               /\ r.targetListIds = <<"L1">>
                               /\ r.excludeListIds = <<>>}

NextDelivery ==
    \/ \E req \in DeliveryBroadcasts : BroadcastStart(req)
    \/ BroadcastCreate
    \/ BroadcastTokenize
    \/ BroadcastSend
    \/ BroadcastRespond
    \/ \E sid \in CallbackSids, messageStatus \in CallbackStatuses :
          DeliveryStatus(sid, messageStatus)

SpecDelivery == InitBroadcast /\ [][NextDelivery]_vars

\* Drafts with URLs: one URL; two URLs; a URL that is a prefix of an earlier
\* one; the same URL twice
UrlA == <<"S", "a">>
UrlB == <<"S", "b">>
UrlAb == <<"S", "a", "/", "b">>
LinkDrafts ==
    {<<"h", "i", " ">> \o UrlA, UrlA \o <<" ">> \o UrlB, UrlAb \o <<" ">> \o UrlA,
     UrlA \o <<" ">> \o UrlA}

\* approvedLinks is absent, or lists UrlA, or lists both UrlA and UrlB
LinkBroadcasts ==
    {[message |-> m, approvedLinks |-> a, targetAll |-> {FALSE}, targetListIds |-> <<"L1">>,
      excludeListIds |-> <<>>] :
        m \in LinkDrafts, a \in {{}, {<<UrlA>>}, {<<UrlA, UrlB>>}}}

\* a Link row an earlier broadcast left behind
OldLink == [broadcastId |-> "B0", originalUrl |-> UrlB, shortCode |-> "c1"]

\* The subscribers of InitBroadcast, with or without a Link row of an earlier
\* broadcast
InitLinks ==
    /\ \E a \in BOOLEAN :
         subscribers = {ListedSubscriber(1, Phone1, a), ListedSubscriber(2, Phone2, TRUE)}
    /\ memberships = {ManualMember(1, "L1"), ManualMember(2, "L1")}
    /\ keywords = SeedKeywords
    /\ messages = <<>>
    /\ clock = Cardinality(subscribers)
    /\ handler = [h \in Handlers |-> Idle]
    /\ delivered = 0
    /\ limit = MaxCallbacks
    /\ faults = 0
    /\ log = <<>>
    /\ start = {}
    /\ bc = NoBroadcast
    /\ sends = <<>>
    /\ inbox = NoAnswer
    /\ callback = NoCallback
    /\ links \in {{}, {OldLink}}
    /\ clicks = <<>>
    /\ redirect = NoRedirect
    /\ lists = Lists
    /\ ld = NoListDelete
    /\ enrol = NoEnrol
    /\ kreq = NoKeywordRequest

\* One broadcast of a draft with URLs, and clicks on short links
NextLinks ==
    \/ \E req \in LinkBroadcasts : BroadcastStart(req)
    \/ BroadcastCreate
    \/ BroadcastTokenize
    \/ BroadcastSend
    \/ BroadcastRespond
    \/ \E shortCode \in ShortCodes \cup {"zz"}, sid \in {{}, {1}} : Click(shortCode, sid)

SpecLinks == InitLinks /\ [][NextLinks]_vars

\* Two webhook requests from the number of an active subscriber, served by two
\* handlers whose steps interleave, and then one broadcast to all subscribers,
\* requested when both webhook requests have been answered
AllBroadcasts ==
    {r \in BroadcastRequests : /\ r.message = BodyHi /\ r.targetAll = {}
                               /\ r.targetListIds = <<>> /\ r.excludeListIds = <<>>}

InitOptOut ==
    /\ subscribers = {StoredSubscriber(TRUE)}
    /\ memberships = {}
    /\ keywords = SeedKeywords \cup {SignupKeywordCreate(JOIN, "Welcome!", {"L1"})}
    /\ messages = <<>>
    /\ clock = 0
    /\ handler = [h \in Handlers |-> Idle]
    /\ delivered = 0
    /\ limit = Cardinality(Handlers)
    /\ faults = MaxFaults
    /\ log = <<>>
    /\ start = subscribers
    /\ bc = NoBroadcast
    /\ sends = <<>>
    /\ inbox = NoAnswer
    /\ callback = NoCallback
    /\ links = {}
    /\ clicks = <<>>
    /\ redirect = NoRedirect
    /\ lists = Lists
    /\ ld = NoListDelete
    /\ enrol = NoEnrol
    /\ kreq = NoKeywordRequest

NextOptOut ==
    \/ \E h \in Handlers :
          \/ \E req \in RaceRequests : Receive(h, req)
          \/ Process(h)
    \/ \E req \in AllBroadcasts :
          /\ delivered = limit
          /\ \A h \in Handlers : handler[h].pc \in {"idle", "done"}
          /\ BroadcastStart(req)
    \/ BroadcastCreate
    \/ BroadcastTokenize
    \/ BroadcastSend
    \/ BroadcastRespond

SpecOptOut == InitOptOut /\ [][NextOptOut]_vars

\* Keywords are created and updated, some bound to a list, while lists are
\* deleted; no keyword is bound at the start.  The updates tried leave the
\* keyword text alone.
BindPatches == {body \in KeywordPatches : body.keyword = {}}

InitBind ==
    /\ subscribers = {ListedSubscriber(1, Phone1, TRUE)}
    /\ memberships = {ManualMember(1, "L2")}
    /\ keywords = SeedKeywords
    /\ messages = <<>>
    /\ clock = 1
    /\ handler = [h \in Handlers |-> Idle]
    /\ delivered = 0
    /\ limit = MaxWebhooks
    /\ faults = 0
    /\ log = <<>>
    /\ start = {}
    /\ bc = NoBroadcast
    /\ sends = <<>>
    /\ inbox = NoAnswer
    /\ callback = NoCallback
    /\ links = {}
    /\ clicks = <<>>
    /\ redirect = NoRedirect
    /\ lists = Lists
    /\ ld = NoListDelete
    /\ enrol = NoEnrol
    /\ kreq = NoKeywordRequest

NextBind ==
    \/ \E req \in KeywordRequests : KeywordCreateCheck(req)
    \/ \E k \in keywords, body \in BindPatches : KeywordUpdateCheck(k, body)
    \/ KeywordWrite
    \/ ListDeleteStep

SpecBind == InitBind /\ [][NextBind]_vars

\* Webhook requests in which no call fails (JOIN bound to list L1), and the
\* admin at the inbox
NextInbox ==
    \/ WebhookStep(1)
    \/ AdminStep

SpecInbox == InitInbox /\ [][NextInbox]_vars

\* The administration of keywords and lists: list L1 has a member and JOIN is
\* bound to it
InitKeywords ==
    /\ subscribers = {ListedSubscriber(1, Phone1, TRUE)}
    /\ memberships = {ManualMember(1, "L1"), ManualMember(1, "L2")}
    /\ keywords = SeedKeywords \cup {SignupKeywordCreate(JOIN, "Welcome!", {"L1"})}
    /\ messages = <<>>
    /\ clock = 1
    /\ handler = [h \in Handlers |-> Idle]
    /\ delivered = 0
    /\ limit = MaxWebhooks
    /\ faults = 0
    /\ log = <<>>
    /\ start = {}
    /\ bc = NoBroadcast
    /\ sends = <<>>
    /\ inbox = NoAnswer
    /\ callback = NoCallback
    /\ links = {}
    /\ clicks = <<>>
    /\ redirect = NoRedirect
    /\ lists = Lists
    /\ ld = NoListDelete
    /\ enrol = NoEnrol
    /\ kreq = NoKeywordRequest

NextKeywords ==
    \/ \E req \in KeywordRequests : CreateKeyword(req)
    \/ \E k \in keywords, body \in KeywordPatches : PatchKeyword(k, body)
    \/ \E k \in keywords : DeleteKeyword(k)
    \/ ListDeleteStep

SpecKeywords == InitKeywords /\ [][NextKeywords]_vars

\* Opt-ins through the keyword JOIN of list L1 and opt-outs, while the admin adds members to
\* lists and imports subscribers; the steps of the requests interleave and no
\* call fails
EnrolRequests == {r \in RaceRequests : r.body \in {BodyJoin, BodyStop}}

InitEnrol ==
    /\ subscribers \in {{}, {StoredSubscriber(TRUE)}}
    /\ memberships = {}
    /\ keywords = SeedKeywords \cup {SignupKeywordCreate(JOIN, "Welcome!", {"L1"})}
    /\ messages = <<>>
    /\ clock = 0
    /\ handler = [h \in Handlers |-> Idle]
    /\ delivered = 0
    /\ limit = MaxInbound
    /\ faults = MaxFaults
    /\ log = <<>>
    /\ start = {}
    /\ bc = NoBroadcast
    /\ sends = <<>>
    /\ inbox = NoAnswer
    /\ callback = NoCallback
    /\ links = {}
    /\ clicks = <<>>
    /\ redirect = NoRedirect
    /\ lists = Lists
    /\ ld = NoListDelete
    /\ enrol = NoEnrol
    /\ kreq = NoKeywordRequest

NextEnrol ==
    \/ \E req \in EnrolRequests : Receive(1, req)
    \/ Process(1)
    \/ EnrolStep

SpecEnrol == InitEnrol /\ [][NextEnrol]_vars

\* Two subscribers who have each sent a message that nobody has read; then
\* further inbound messages and the admin marking conversations
InitMarkAll ==
    /\ \E a \in BOOLEAN :
         subscribers = {ListedSubscriber(1, Phone1, a), ListedSubscriber(2, Phone2, TRUE)}
    /\ memberships = {}
    /\ keywords = SeedKeywords \cup {SignupKeywordCreate(JOIN, "Welcome!", {"L1"})}
    /\ messages = <<NewMessage(Phone1, BodyHi, "INBOUND", 3),
                    NewMessage(Phone2, BodyHi, "INBOUND", 4)>>
    /\ clock = 4
    /\ handler = [h \in Handlers |-> Idle]
    /\ delivered = 0
    /\ limit = MaxInbound
    /\ faults = MaxFaults
    /\ log = <<>>
    /\ start = {}
    /\ bc = NoBroadcast
    /\ sends = <<>>
    /\ inbox = NoAnswer
    /\ callback = NoCallback
    /\ links = {}
    /\ clicks = <<>>
    /\ redirect = NoRedirect
    /\ lists = Lists
    /\ ld = NoListDelete
    /\ enrol = NoEnrol
    /\ kreq = NoKeywordRequest

NextMarkAll ==
    \/ \E req \in RaceRequests : Receive(1, req)
    \/ Process(1)
    \/ \E session \in BOOLEAN : MarkAllRead(session)
    \/ \E session \in BOOLEAN : InboxStats(session)
    \/ \E session \in BOOLEAN, id \in SubscriberIds : MarkUnread(session, id)

SpecMarkAll == InitMarkAll /\ [][NextMarkAll]_vars

----------------------------------------------------------------------------
\* Claims about the inbound webhook

Normalized(body) == ToUpperCase(Trim(body))

\* C1: a body whose trimmed, upper-cased form is STOP or UNSUBSCRIBE is always
\* routed to the opt-out branch, never to the opt-in branch, also when an active
\* keyword with that text exists.
C1_OptOutAlwaysWins ==
    \A h \in Handlers :
        (/\ handler[h].pc \notin {"idle", "lookup", "done"}
         /\ Normalized(handler[h].body) \in OPT_OUT_KEYWORDS)
        => handler[h].intent = "optout"

View(tbl, phone) ==
    {[isActive |-> r.isActive, joinedViaKeyword |-> r.joinedViaKeyword,
      slackThreadTs |-> r.slackThreadTs] : r \in {x \in tbl : x.phoneNumber = phone}}

RequestOf(h) == [from |-> handler[h].from, body |-> handler[h].body, seq |-> handler[h].seq]

\* C2: when two webhooks from one phone number have been processed concurrently,
\* the subscriber's final isActive, joinedViaKeyword and thread reference are
\* those of processing the two one after the other, in one of the two orders.
C2_ConcurrentIsSerial ==
    (/\ \A h \in Handlers : handler[h].pc = "done"
     /\ handler[1].from = handler[2].from)
    => LET r1 == RequestOf(1)
           r2 == RequestOf(2)
       IN View(subscribers, r1.from) \in
            {View(ProcessSerially(ProcessSerially(start, r1), r2), r1.from),
             View(ProcessSerially(ProcessSerially(start, r2), r1), r1.from)}

\* ProcessSerially agrees with the handler: a single request, alone
SerialAgrees ==
    (handler[1].pc = "done" /\ handler[2].pc = "idle" /\ delivered = 1)
    => View(subscribers, Phone1) = View(ProcessSerially(start, RequestOf(1)), Phone1)

\* two entries of the history are one request delivered twice in a row, the
\* keyword table giving the same answer both times
SameDelivery(a, b) ==
    /\ b.seq = a.seq + 1
    /\ b.from = a.from
    /\ b.body = a.body
    /\ b.kw = a.kw
    /\ b.intent = a.intent

\* a subscriber row without its read watermark
Core(rows) == {FromPersistence(r) : r \in rows}

IsOptInOutIn(a, b, c) ==
    /\ b.seq = a.seq + 1 /\ c.seq = b.seq + 1
    /\ b.from = a.from /\ c.from = a.from
    /\ ~a.failed /\ ~b.failed /\ ~c.failed
    /\ a.intent = "optin" /\ b.intent = "optout" /\ c.intent = "optin"
    /\ Some(c.kw).listId # {}

\* C8: opt-in, opt-out, opt-in with a list-bound keyword, one after the other
\* from one phone number: the subscriber id is the same after all three,
\* isActive is true, false, true, and the subscriber has at most one membership
\* of the keyword's list.
C8_OptInOutIn ==
    \A i \in 1..(Len(log) - 2) :
        LET a == log[i]  b == log[i + 1]  c == log[i + 2] IN
        IsOptInOutIn(a, b, c) =>
            /\ a.sub # {} /\ b.sub # {} /\ c.sub # {}
            /\ Some(b.sub).id = Some(a.sub).id /\ Some(c.sub).id = Some(a.sub).id
            /\ Some(a.sub).isActive /\ ~Some(b.sub).isActive /\ Some(c.sub).isActive
            /\ Cardinality({m \in c.members : m.listId = Some(Some(c.kw).listId)}) <= 1

\* C8 witness: such a sequence has completed, both opt-ins with the list-bound keyword
C8_Witness ==
    \E i \in 1..(Len(log) - 2) :
        /\ IsOptInOutIn(log[i], log[i + 1], log[i + 2])
        /\ Some(log[i].kw).listId # {}
        /\ log[i + 2].members # {}

\* the request of handler h has a decision and is past the storing of the
\* inbound message
PastInbound(h) ==
    handler[h].pc \in {"reply", "markread", "notify", "threadfind", "threadwrite", "respond"}

PastMarkRead(h) == handler[h].pc \in {"notify", "threadfind", "threadwrite", "respond"}

\* C11: once an opt-in request has sent its auto-reply, stored the OUTBOUND row
\* and written lastReadAt, the subscriber's lastReadAt is not earlier than that
\* row's createdAt, for a new, an already active and a reactivated subscriber.
C11_OptInMarksRead ==
    \A h \in Handlers :
        (/\ PastMarkRead(h)
         /\ handler[h].intent = "optin"
         /\ handler[h].replyAt # {}
         /\ handler[h].marked)
        => \E r \in subscribers :
              /\ r.phoneNumber = handler[h].from
              /\ r.lastReadAt # {}
              /\ Some(r.lastReadAt) >= Some(handler[h].replyAt)
              /\ \E i \in 1..Len(messages) :
                    /\ messages[i].direction = "OUTBOUND"
                    /\ messages[i].phoneNumber = r.phoneNumber
                    /\ messages[i].createdAt = Some(handler[h].replyAt)

\* C11 witness: the opt-in of a reactivated subscriber is past its mark-read
C11_Witness ==
    \E h \in Handlers :
        /\ PastMarkRead(h)
        /\ handler[h].intent = "optin"
        /\ handler[h].result = Reactivated(Some(handler[h].kw))
        /\ handler[h].replyAt # {}
        /\ handler[h].marked

----------------------------------------------------------------------------
\* Claims about the notifier thread

\* handler h has posted the notification of its request
Notified(h) == handler[h].pc \in {"threadfind", "threadwrite", "respond"}

\* C23: the notification for a conversational message from an active subscriber
\* whose thread reference is already set is posted into that thread: the
\* notifier is called with the stored reference
C23_PostedIntoStoredThread ==
    \A h \in Handlers :
        (/\ Notified(h)
         /\ handler[h].intent = "regular"
         /\ handler[h].threadTs # {}
         /\ handler[h].existing # {}
         /\ Some(handler[h].existing).isActive
         /\ Some(handler[h].existing).slackThreadTs # {})
            => handler[h].postedIn = Some(handler[h].existing).slackThreadTs

\* C24: once a subscriber's thread reference is set it is never replaced: no
\* step, of the request that set it, of a later one or of one running at the
\* same time, changes or removes the stored reference
C24_ThreadRefIsFirstWrite ==
    [][\A r \in subscribers :
          r.slackThreadTs # {}
              => \E r2 \in subscribers' : /\ r2.id = r.id
                                          /\ r2.slackThreadTs = r.slackThreadTs]_vars

\* C27: an opt-out is undone by nothing but a later opt-in (or the admin): when
\* STOP and a conversational message from one phone number have been handled,
\* in whatever interleaving, thread write-back included, the subscriber is
\* inactive once both handlers have answered
C27_OptOutSurvivesOtherHandler ==
    (/\ \A h \in Handlers : handler[h].pc = "done"
     /\ handler[1].from = handler[2].from
     /\ Len(log) = Cardinality(Handlers)
     /\ \E i \in 1..Len(log), j \in 1..Len(log) :
           log[i].intent = "optout" /\ log[j].intent = "regular")
        => \A r \in subscribers : r.phoneNumber = handler[1].from => ~r.isActive

----------------------------------------------------------------------------
\* Claims about the broadcast and the delivery-status webhook

Terminal == {"DELIVERED", "UNDELIVERED", "FAILED"}

\* C3: once an outbound message's deliveryStatus is DELIVERED, UNDELIVERED or
\* FAILED, no later callback changes it.
C3_TerminalStatusIsFinal ==
    [][\A i \in 1..Len(messages) :
          messages[i].deliveryStatus \in Terminal
          => messages'[i].deliveryStatus = messages[i].deliveryStatus]_vars

\* INCLUDE and EXCLUDE of the audience algebra, as sets of subscriber ids
Include(req) ==
    IF EffectiveTargetAll(req)
      THEN {r.id : r \in {x \in subscribers : x.isActive}}
      ELSE {r.id : r \in {x \in subscribers :
               /\ x.isActive
               /\ \E m \in memberships : /\ m.subscriberId = x.id
                                          /\ m.listId \in Range(req.targetListIds)}}
Exclude(req) ==
    {m.subscriberId : m \in {x \in memberships : x.listId \in Range(req.excludeListIds)}}

AudienceIds == {bc.audience[i].id : i \in 1..Len(bc.audience)}

\* C4: the audience the broadcast resolves is INCLUDE minus EXCLUDE; a request
\* whose INCLUDE minus EXCLUDE is empty is rejected.
C4_AudienceIsIncludeMinusExclude ==
    (bc.pc \notin {"idle"} /\ bc.status \notin {500} /\ Trim(Some(bc.req).message) # Empty)
    => AudienceIds = Include(Some(bc.req)) \ Exclude(Some(bc.req))

\* how often the gateway was asked to send to a phone number
TimesSent(phone) == Cardinality({i \in 1..Len(sends) : sends[i].to = phone})

\* C5: when the broadcast has answered, the gateway was asked to send exactly
\* once to every subscriber of the audience it resolved and to no one else,
\* whichever sends and message writes failed.
C5_EachRecipientOnce ==
    bc.pc = "done" =>
        /\ \A i \in 1..Len(bc.audience) : TimesSent(bc.audience[i].phoneNumber) = 1
        /\ \A i \in 1..Len(sends) :
              \E j \in 1..Len(bc.audience) : bc.audience[j].phoneNumber = sends[i].to

\* C5 witness: a broadcast to three recipients has answered after a successful
\* send, a failed send and a message write that failed
C5_Witness ==
    /\ bc.pc = "done"
    /\ Len(bc.audience) = 3
    /\ \E i, j \in 1..Len(sends) : sends[i].ok /\ ~sends[j].ok
    /\ Len(messages) < Len(sends)

\* the recipients whose send failed, in the order of the sends
RECURSIVE FailedSends(_)
FailedSends(seq) ==
    IF seq = <<>> THEN <<>>
    ELSE IF Head(seq).ok THEN FailedSends(Tail(seq))
    ELSE <<Head(seq).to>> \o FailedSends(Tail(seq))

\* C6: once the sends have begun the broadcast answers with its success
\* summary, whatever the gateway did: failed counts the recipients whose send
\* failed, errors lists them (the first five), sentTo counts the others.
C6_FailureNeverAborts ==
    (bc.pc = "done" /\ sends # <<>>) =>
        /\ bc.status = 200
        /\ Some(bc.body).success
        /\ Some(bc.body).failed = Len(FailedSends(sends))
        /\ Some(bc.body).errors = FirstN(FailedSends(sends), 5)
        /\ Some(bc.body).sentTo = Len(sends) - Len(FailedSends(sends))
        /\ Len(sends) = Len(bc.audience)

\* C6 witness: a broadcast whose first send failed has answered after sending to the rest
C6_Witness ==
    /\ bc.pc = "done"
    /\ Len(sends) > 1
    /\ ~sends[1].ok
    /\ sends[Len(sends)].ok
    /\ bc.status = 200

\* C15: the delivery-status webhook answers every request with HTTP 200 (and a
\* JSON body: every answer of the route is built by NextResponse.json),
\* whatever fields the request carries and whatever the store does
C15_DeliveryStatusAnswers200 == callback.status # 0 => callback.status = 200

\* the OUTBOUND rows the broadcast of this run has stored for a phone number
RowsOf(phone) ==
    {i \in 1..Len(messages) : /\ messages[i].phoneNumber = phone
                              /\ messages[i].direction = "OUTBOUND"
                              /\ messages[i].broadcastId = bc.broadcastId}

\* C25: when the store refuses no write (the campaign record is stored and so
\* is every message row), every recipient the loop has attempted has exactly
\* one OUTBOUND row: SENT with the gateway's message id when the send went
\* through, FAILED without a message id when it did not
C25_OneRowPerAttempt ==
    (bc.broadcastId # {} /\ bc.unlogged = {})
        => \A k \in 1..Len(sends) :
              /\ Cardinality(RowsOf(sends[k].to)) = 1
              /\ \A i \in RowsOf(sends[k].to) :
                    IF sends[k].ok
                      THEN /\ messages[i].deliveryStatus = "SENT"
                           /\ messages[i].twilioSid # {}
                      ELSE /\ messages[i].deliveryStatus = "FAILED"
                           /\ messages[i].twilioSid = {}

C25_Witness ==
    /\ bc.pc = "done" /\ bc.status = 200
    /\ bc.broadcastId # {} /\ bc.unlogged = {}
    /\ \E j \in 1..Len(sends), k \in 1..Len(sends) : sends[j].ok /\ ~sends[k].ok

\* how often a phone number stands in a list of phone numbers
CountIn(seq, phone) == Cardinality({i \in 1..Len(seq) : seq[i] = phone})

\* C29: in every summary sentTo + failed equals the size of the audience the
\* broadcast resolved, and every member of that audience is counted exactly
\* once, either among the sent or among the failed
C29_SummaryCountsAudience ==
    (bc.pc = "done" /\ bc.status = 200)
        => LET summary == Some(bc.body) IN
           /\ summary.sentTo + summary.failed = Len(bc.audience)
           /\ summary.sentTo = Len(bc.results) /\ summary.failed = Len(bc.errors)
           /\ \A i \in 1..Len(bc.audience) :
                 CountIn(bc.results, bc.audience[i].phoneNumber)
                   + CountIn(bc.errors, bc.audience[i].phoneNumber) = 1

C29_Witness ==
    /\ bc.pc = "done" /\ bc.status = 200
    /\ Some(bc.body).sentTo > 0 /\ Some(bc.body).failed > 0
    /\ Len(bc.audience) = Cardinality(subscribers)

\* the store refused the BroadcastTarget rows the route tried to write
TargetsRefused == ~EffectiveTargetAll(Some(bc.req)) /\ bc.targets = {}

\* C26: when the broadcast header is stored (and the store refuses no target
\* row), a BroadcastTarget row exists for every targeted list, of type include,
\* and for every excluded list, of type exclude
C26_TargetRowsForIncludeAndExclude ==
    (bc.pc \in {"links", "send", "done"} /\ bc.broadcastId # {} /\ ~TargetsRefused)
        => LET req == Some(bc.req) IN
           /\ \A l \in Range(req.targetListIds) :
                 \E t \in bc.targets : t.listId = l /\ t.type \subseteq {"include"}
           /\ \A l \in Range(req.excludeListIds) :
                 \E t \in bc.targets : t.listId = l /\ t.type = {"exclude"}

\* the opt-out of a phone number has been processed and answered, and no
\* opt-in of the number has been processed in this run or is under way
OptedOut(phone) ==
    /\ \E i \in 1..Len(log) :
          log[i].from = phone /\ log[i].intent = "optout" /\ ~log[i].failed
    /\ \A j \in 1..Len(log) : log[j].from = phone => log[j].intent # "optin"
    /\ \A h \in Handlers :
          (handler[h].from = phone /\ handler[h].pc # "done") => handler[h].intent # "optin"

\* C28: after a subscriber's opt-out has been processed, a broadcast that
\* resolves its audience afterwards does not have that phone number in its
\* audience (and so sends nothing to it), until the subscriber opts in again
C28_NoBroadcastAfterOptOut ==
    [][(bc.pc = "idle" /\ bc'.pc # "idle" /\ OptedOut(Phone1))
          => \A i \in 1..Len(bc'.audience) : bc'.audience[i].phoneNumber # Phone1]_vars

----------------------------------------------------------------------------
\* Claims about link tracking

\* the Link rows of the broadcast of this run
LinksOfBroadcast == {r \in links : {r.broadcastId} = bc.broadcastId}

\* C12: when persisting a Link row fails while the draft is tokenized, the
\* broadcast is still sent to the whole audience with the original body and no
\* Link row is recorded for the broadcast
C12_FailedTokenizeLeavesNoLinks ==
    (bc.pc = "done" /\ bc.linksFailed)
        => /\ bc.status = 200
           /\ Len(sends) = Len(bc.audience)
           /\ \A i \in 1..Len(sends) : /\ sends[i].to = bc.audience[i].phoneNumber
                                       /\ sends[i].body = Some(bc.req).message
           /\ LinksOfBroadcast = {}

\* C13: a click on the short code of a link that tokenizing the draft produced
\* is answered, unless the lookup itself fails, by a permanent redirect to
\* exactly the original URL of that link
C13_ShortCodeResolvesToOriginal ==
    [][\A l \in Range(bc.links) :
          (redirect' # redirect /\ redirect'.code = l.shortCode /\ redirect'.status # 500)
              => /\ redirect'.status = 308
                 /\ redirect'.location = {l.originalUrl}
                 /\ Occurrences(Some(bc.req).message, l.originalUrl) # {}]_vars

C13_Witness ==
    /\ redirect.status = 308
    /\ \E l \in Range(bc.links) : l.shortCode = redirect.code /\ l.originalUrl = UrlA
    /\ OldLink \in links

\* the extracted URLs of the draft that the approved list leaves out
Unapproved(req) ==
    {u \in Range(ExtractUrls(req.message)) :
        req.approvedLinks # {} /\ u \notin Range(Some(req.approvedLinks))}

\* the sequence of the maximal non-space runs of a text
RECURSIVE Words(_, _)
Words(s, i) ==
    IF i > Len(s) THEN <<>>
    ELSE IF s[i] = " " THEN Words(s, i + 1)
    ELSE <<SubSeq(s, i, RunEnd(s, i))>> \o Words(s, RunEnd(s, i) + 1)

\* C14: with an approved list, every extracted URL outside the list stands
\* unchanged in the rewritten body (as often, and where, it stood in the draft)
\* and has no Link row, whatever other URLs were shortened
C14_UnapprovedUntouched ==
    (bc.pc \in {"send", "done"} /\ bc.req # {} /\ bc.processedMessage # <<>>)
        => LET req == Some(bc.req)
               before == Words(req.message, 1)
               after == Words(bc.processedMessage, 1)
           IN \A u \in Unapproved(req) :
                 /\ Len(after) = Len(before)
                 /\ \A i \in 1..Len(before) : before[i] = u => after[i] = u
                 /\ \A r \in LinksOfBroadcast : r.originalUrl # u

\* C21: within one tokenizer invocation every occurrence of an approved URL of
\* the draft is rewritten to the same short link: wherever the URL stood in the
\* draft the rewritten body has the tracking URL of the one link made for it,
\* and the URL has exactly one link
C21_EveryOccurrenceRewritten ==
    (bc.pc \in {"send", "done"} /\ bc.req # {} /\ bc.links # <<>>)
        => LET req == Some(bc.req)
               before == Words(req.message, 1)
               after == Words(bc.processedMessage, 1)
           IN \A k \in 1..Len(bc.links) :
                 /\ Len(after) = Len(before)
                 /\ \A i \in 1..Len(before) :
                       before[i] = bc.links[k].originalUrl
                           => after[i] = TrackingUrl(bc.links[k].shortCode)
                 /\ \A j \in 1..Len(bc.links) :
                       bc.links[j].originalUrl = bc.links[k].originalUrl => j = k

\* C22: when the short code drawn for a URL equals the shortCode of an existing
\* Link, the tokenizer draws again instead of failing on that first collision:
\* the invocation does not end in failure on a collision, and no two Link rows
\* share a short code
C22_CollisionIsRetried ==
    /\ bc.linksCollided => ~bc.linksFailed
    /\ \A r1 \in links, r2 \in links : r1.shortCode = r2.shortCode => r1 = r2

----------------------------------------------------------------------------
\* Claims about the inbox

\* a subscriber has an INBOUND message created after its lastReadAt (any INBOUND
\* message when lastReadAt is null)
UnreadInbound(id) ==
    \E r \in subscribers :
        /\ r.id = id
        /\ \E m \in MessagesOf(r.phoneNumber) :
              /\ m.direction = "INBOUND"
              /\ r.lastReadAt = {} \/ m.createdAt > Some(r.lastReadAt)

\* C10: whenever the inbox list answers, each active subscriber's hasUnread is
\* true exactly when the subscriber has an inbound message created after its
\* lastReadAt, whatever outbound messages the conversation holds.
C10_HasUnreadIffUnreadInbound ==
    [][\A session \in BOOLEAN :
          (InboxList(session) /\ inbox'.status = 200)
          => \A conv \in inbox'.body : conv.hasUnread <=> UnreadInbound(conv.id)]_vars

\* nobody, active or not, satisfies the unread predicate of the list or of the
\* stats, and the stats would count 0
NoUnread ==
    /\ \A r \in subscribers : ~HasUnread(r) /\ ~CountsAsUnread(r)
    /\ Cardinality({r \in subscribers : r.isActive /\ CountsAsUnread(r)}) = 0

\* a step that sets some subscriber's lastReadAt back to null
ResetsLastReadAt ==
    \E r \in subscribers :
        /\ r.lastReadAt # {}
        /\ \E q \in subscribers' : q.id = r.id /\ q.lastReadAt = {}

\* a step in which markAllRead answers 200 (a step of the webhook changes handler)
MarkAllReadAnswers ==
    inbox'.op = "markallread" /\ inbox'.status = 200 /\ handler' = handler

----------------------------------------------------------------------------
\* Claims about the administration of keywords and lists

\* C20: every stored SignupKeyword carries its keyword in upper case, after any
\* sequence of creates and updates
C20_KeywordsAreUpperCase == \A k \in keywords : k.keyword = ToUpperCase(k.keyword)

\* an update has stored a keyword that was sent in mixed case with a blank
C20_Witness ==
    /\ \E k \in keywords : k.keyword = TRIBE /\ k.listId = {"L1"}
    /\ \E k \in keywords : k.keyword = STOP

\* some keyword points to the list
Referenced(id) == \E k \in keywords : k.listId = {id}

\* C17: a delete of a list that a SignupKeyword references when the route
\* checks is rejected, and the list and its memberships stay as they are
C17_ReferencedListIsKept ==
    [][(ld.pc = "count" /\ Referenced(ld.id) /\ ld' # ld)
          => /\ ld'.pc = "done"
             /\ ld'.status \in {400, 500}
             /\ lists' = lists
             /\ memberships' = memberships]_vars

\* the delete of a referenced list with a member was answered 400, also when
\* the only keyword that references it is inactive
C17_Witness ==
    /\ ld.pc = "done"
    /\ ld.status = 400
    /\ ld.id \in lists
    /\ \E k \in keywords : k.listId = {ld.id}
    /\ \A k \in keywords : k.listId = {ld.id} => ~k.isActive
    /\ \E m \in memberships : m.listId = ld.id

\* C18: whatever keyword opt-ins, manual additions and imports run, one after
\* the other or at once, the table holds at most one ListMembership per
\* (subscriber, list), and enrolling a pair that is enrolled leaves every stored
\* membership as it is
C18_OneMembershipPerPair ==
    [][/\ \A m \in memberships', n \in memberships' :
             (m.subscriberId = n.subscriberId /\ m.listId = n.listId) => m = n
       /\ memberships \subseteq memberships']_vars

\* the webhook has enrolled the pair between the two halves of the admin's
\* upsert, and the admin's insert was refused
C18_Witness ==
    /\ enrol.pc = "done"
    /\ enrol.kind = "manual"
    /\ enrol.skipped = 1
    /\ \E m \in memberships : m.listId = "L1" /\ m.joinedVia = <<"keyword", JOIN>>
    /\ Cardinality(memberships) = 1

====
